---- MODULE Spec2Model ----
(***************************************************************************)
(* A model of the request orchestration and caching layer of open-lens:    *)
(* services/githubService.ts (searchRepositories and its helpers),         *)
(* services/db.ts (the durable cache) and the fetchData callback of        *)
(* App.tsx (request fencing).                                              *)
(*                                                                         *)
(* Strings are TLA+ strings; the clock is in milliseconds since the model  *)
(* starts.  An asynchronous function is one action per suspension point.   *)
(***************************************************************************)
EXTENDS Integers, Sequences, FiniteSets, TLC

(***************************************************************************)
(* Bounds of the model.                                                    *)
(***************************************************************************)
MaxCalls == 3
MaxInFlight == 2
MaxFeedItems == 2
MaxPage == 2
MaxIssues == 3

(***************************************************************************)
(* Program constants.                                                      *)
(***************************************************************************)
MAX_STARS == 50000
ITEMS_PER_PAGE == 30
CACHE_PREFIX == "openlens_cache_v1_"
BROWSING_CACHE_TTL == 1000 * 60 * 15
SEARCH_CACHE_TTL == 1000 * 60 * 2
MsPerDay == 1000 * 60 * 60 * 24

(***************************************************************************)
(* String helpers (what String.prototype.includes / startsWith and         *)
(* Array.prototype.join compute).                                          *)
(***************************************************************************)
Contains(s, sub) ==
    \E i \in 1..(Len(s) - Len(sub) + 1) : SubSeq(s, i, i + Len(sub) - 1) = sub

StartsWith(s, p) == Len(s) >= Len(p) /\ SubSeq(s, 1, Len(p)) = p

RECURSIVE JoinFrom(_, _, _)
JoinFrom(parts, sep, i) ==
    IF i > Len(parts) THEN ""
    ELSE IF i = Len(parts) THEN parts[i]
    ELSE parts[i] \o sep \o JoinFrom(parts, sep, i + 1)

Join(parts, sep) == JoinFrom(parts, sep, 1)

Range(seq) == {seq[i] : i \in 1..Len(seq)}

Pad2(n) == IF n < 10 THEN "0" \o ToString(n) ELSE ToString(n)

\* The calendar date (YYYY-MM-DD) of a day number counted from 1970-01-01.
DateOfDay(z0) ==
    LET z == z0 + 719468
        era == z \div 146097
        doe == z - era * 146097
        yoe == (doe - doe \div 1460 + doe \div 36524 - doe \div 146096) \div 365
        doy == doe - (365 * yoe + yoe \div 4 - yoe \div 100)
        mp == (5 * doy + 2) \div 153
        d == doy - (153 * mp + 2) \div 5 + 1
        m == IF mp < 10 THEN mp + 3 ELSE mp - 9
        y == yoe + era * 400 + (IF m <= 2 THEN 1 ELSE 0)
    IN  ToString(y) \o "-" \o Pad2(m) \o "-" \o Pad2(d)

\* Day number of the moment the model's clock reads 0 (2026-11-01).
StartDay == 20758

\* getDateNDaysAgo(n) evaluated when the clock reads t.
getDateNDaysAgo(n, t) == DateOfDay(StartDay + t \div MsPerDay - n)

(***************************************************************************)
(* JSON.stringify of the values that make up a cache key.                  *)
(***************************************************************************)
RECURSIVE JsonEscapeFrom(_, _)
JsonEscapeFrom(s, i) ==
    IF i > Len(s) THEN ""
    ELSE LET ch == SubSeq(s, i, i)
         IN  (IF ch = "\"" THEN "\\\"" ELSE IF ch = "\\" THEN "\\\\" ELSE ch)
                 \o JsonEscapeFrom(s, i + 1)

JsonString(s) == "\"" \o JsonEscapeFrom(s, 1) \o "\""

JsonStringArray(arr) ==
    "[" \o Join([i \in 1..Len(arr) |-> JsonString(arr[i])], ",") \o "]"

(***************************************************************************)
(* Input domains.                                                          *)
(***************************************************************************)
NoUser == ""
Queries == {"", "react"}
Languages == {<< >>, <<"Rust">>, <<"Rust", "Go">>}
Licenses == {"All", "mit"}
Sorts == {"trending", "stars", "updated"}
Orders == {"desc"}
MinStarsValues == {0, 100}
MaxStarsValues == {500, MAX_STARS}
Pages == {1, 2}
Users == {NoUser, "alice"}

FilterStates ==
    [query : Queries, language : Languages, license : Licenses, sort : Sorts,
     order : Orders, minStars : MinStarsValues, maxStars : MaxStarsValues]

(***************************************************************************)
(* services/githubService.ts: pure parts of searchRepositories.            *)
(***************************************************************************)
\* usernameContext || 'none'
UserOrNone(usernameContext) ==
    IF usernameContext # NoUser THEN usernameContext ELSE "none"

\* CACHE_PREFIX + JSON.stringify({...filters, page, usernameContext})
getCacheKey(f, page, usernameContext) ==
    CACHE_PREFIX
        \o "{\"query\":" \o JsonString(f.query)
        \o ",\"language\":" \o JsonStringArray(f.language)
        \o ",\"license\":" \o JsonString(f.license)
        \o ",\"sort\":" \o JsonString(f.sort)
        \o ",\"order\":" \o JsonString(f.order)
        \o ",\"minStars\":" \o ToString(f.minStars)
        \o ",\"maxStars\":" \o ToString(f.maxStars)
        \o ",\"page\":" \o ToString(page)
        \o ",\"usernameContext\":" \o JsonString(UserOrNone(usernameContext))
        \o "}"

TtlForSwapped(f) == IF f.query # "" THEN BROWSING_CACHE_TTL ELSE SEARCH_CACHE_TTL

\* const ttl = filters.query ? SEARCH_CACHE_TTL : BROWSING_CACHE_TTL
TtlFor(f) == IF f.query # "" THEN SEARCH_CACHE_TTL ELSE BROWSING_CACHE_TTL

IsFreshInverted(entry, ttl, t) == t - entry.timestamp > ttl

IsFreshInclusive(entry, ttl, t) == t - entry.timestamp <= ttl

\* Date.now() - cachedEntry.timestamp < ttl
IsFresh(entry, ttl, t) == t - entry.timestamp < ttl

isTrending(f) == f.sort = "trending"
hasStarFilterMinOnly(f) == f.minStars > 0

hasStarFilter(f) == f.minStars > 0 \/ f.maxStars < MAX_STARS
hasQuery(f) == f.query # ""
hasUser(usernameContext) == usernameContext # NoUser
hasLicense(f) == f.license # "" /\ f.license # "All"

\* The guard of the trending block.
TrendingBlock(f, usernameContext) ==
    /\ isTrending(f)
    /\ ~hasQuery(f)
    /\ ~hasUser(usernameContext)
    /\ ~hasStarFilter(f)
    /\ ~hasLicense(f)

\* lang: the single language handed to the proxy, "" when undefined.
TrendingLang(f) ==
    IF Len(f.language) > 0 /\ f.language[1] # "All" THEN f.language[1] ELSE ""

UsesTrendingProxyNoLanguage(f, usernameContext) ==
    /\ isTrending(f) /\ ~hasQuery(f) /\ ~hasUser(usernameContext)
    /\ ~hasStarFilter(f) /\ ~hasLicense(f)
    /\ Len(f.language) = 0

\* if (!lang || filters.language.length === 1)
UsesTrendingProxy(f, usernameContext) ==
    /\ TrendingBlock(f, usernameContext)
    /\ (TrendingLang(f) = "" \/ Len(f.language) = 1)

StarPartsMinFirst(f) ==
    IF f.minStars > 0
    THEN << "stars:>=" \o ToString(f.minStars) >>
    ELSE IF f.maxStars < MAX_STARS
         THEN << "stars:" \o ToString(f.minStars) \o ".." \o ToString(f.maxStars) >>
         ELSE << >>

\* The star clause pushed last onto queryParts.
StarParts(f) ==
    IF f.maxStars < MAX_STARS
    THEN << "stars:" \o ToString(f.minStars) \o ".." \o ToString(f.maxStars) >>
    ELSE IF f.minStars > 0
         THEN << "stars:>=" \o ToString(f.minStars) >>
         ELSE << >>

LanguagePartsStructured(f) ==
    IF Len(f.language) > 0 /\ "All" \notin Range(f.language)
    THEN << Join([i \in 1..Len(f.language) |-> "language:" \o f.language[i]], " ") >>
    ELSE << >>

\* The language keywords: langs.map(l => `"${l}"`).join(' ')
LanguageParts(f) ==
    IF Len(f.language) > 0 /\ "All" \notin Range(f.language)
    THEN << Join([i \in 1..Len(f.language) |-> "\"" \o f.language[i] \o "\""], " ") >>
    ELSE << >>

LicenseParts(f) ==
    IF f.license # "" /\ f.license # "All"
    THEN << "license:" \o f.license >>
    ELSE << >>

UserParts(usernameContext) ==
    IF usernameContext # NoUser THEN << "user:" \o usernameContext >> ELSE << >>

RecencyParts(f, usernameContext, t) ==
    IF isTrending(f) /\ ~hasQuery(f) /\ usernameContext = NoUser
    THEN << "created:>" \o getDateNDaysAgo(7, t) >>
    ELSE << >>

QueryOrFloorParts(f, usernameContext) ==
    IF f.query # ""
    THEN << f.query >>
    ELSE IF usernameContext = NoUser /\ ~hasStarFilter(f)
            /\ Len(f.language) = 0 /\ ~isTrending(f)
         THEN << "stars:>1000" >>
         ELSE << >>

QueryPartsLicenseLast(f, usernameContext, t) ==
    UserParts(usernameContext)
        \o RecencyParts(f, usernameContext, t)
        \o QueryOrFloorParts(f, usernameContext)
        \o LanguageParts(f)
        \o StarParts(f)
        \o LicenseParts(f)

\* queryParts, in the order of the pushes.
QueryParts(f, usernameContext, t) ==
    UserParts(usernameContext)
        \o RecencyParts(f, usernameContext, t)
        \o QueryOrFloorParts(f, usernameContext)
        \o LanguageParts(f)
        \o LicenseParts(f)
        \o StarParts(f)

\* const q = queryParts.join(' ')
BuildQuery(f, usernameContext, t) == Join(QueryParts(f, usernameContext, t), " ")

SearchRequestSortAsIs(f, page, usernameContext, t) ==
    [endpoint |-> "search",
     q |-> BuildQuery(f, usernameContext, t),
     order |-> f.order,
     per_page |-> ToString(ITEMS_PER_PAGE),
     page |-> ToString(page),
     sort |-> f.sort,
     language |-> ""]

\* The request to the search endpoint (the URLSearchParams of the call).
SearchRequest(f, page, usernameContext, t) ==
    [endpoint |-> "search",
     q |-> BuildQuery(f, usernameContext, t),
     order |-> f.order,
     per_page |-> ToString(ITEMS_PER_PAGE),
     page |-> ToString(page),
     sort |-> IF isTrending(f) THEN "stars" ELSE f.sort,
     language |-> ""]

\* The Accept header getHeaders sends unless told otherwise.
DefaultAccept == "application/vnd.github.v3+json"

\* The headers of a request; a header that is "" is not sent.
NoHeaders == [Accept |-> "", Authorization |-> ""]

getHeadersAlways(accept, token) ==
    [Accept |-> accept, Authorization |-> "token " \o token]

\* getHeaders(accept), reading the credential held when it is called.
getHeaders(accept, token) ==
    [Accept |-> accept,
     Authorization |-> IF token # "" THEN "token " \o token ELSE ""]

\* The request fetchTrendingProxy sends.
TrendingRequest(language) ==
    [endpoint |-> "trending",
     q |-> "",
     order |-> "",
     per_page |-> "",
     page |-> "",
     sort |-> "",
     language |-> IF language # "" /\ language # "All" THEN language ELSE ""]

EmptyResponse ==
    [total_count |-> 0, incomplete_results |-> FALSE, items |-> << >>, warning |-> ""]

(***************************************************************************)
(* What the network can answer.                                            *)
(***************************************************************************)
Pad3(n) == IF n < 10 THEN "00" \o ToString(n)
           ELSE IF n < 100 THEN "0" \o ToString(n) ELSE ToString(n)

\* new Date().toISOString() when the clock reads t.
IsoTime(t) ==
    LET ms == t % MsPerDay
    IN  DateOfDay(StartDay + t \div MsPerDay) \o "T"
            \o Pad2(ms \div 3600000) \o ":" \o Pad2((ms \div 60000) % 60) \o ":"
            \o Pad2((ms \div 1000) % 60) \o "." \o Pad3(ms % 1000) \o "Z"

\* The i-th entry of the trending feed.
RawItem(i) ==
    [author |-> "author" \o ToString(i),
     name |-> "repo" \o ToString(i),
     description |-> "trending " \o ToString(i),
     url |-> "https://github.com/author" \o ToString(i) \o "/repo" \o ToString(i),
     stars |-> 10 * i,
     forks |-> i,
     language |-> "Rust",
     avatar |-> "https://avatars/" \o ToString(i)]

Feed(n) == [i \in 1..n |-> RawItem(i)]

\* Math.floor(Math.random() * 100000): the values the model draws.
RandomOffsets == {0, 1}

\* Outcomes of the request to the trending proxy.
TrendingOutcomes ==
    {[kind |-> k, n |-> 0] : k \in {"networkError", "notOk", "badJson", "notArray"}}
        \cup {[kind |-> "feed", n |-> n] : n \in 0..MaxFeedItems}

\* A repository as the search endpoint returns it.
ApiRepo(i) ==
    [id |-> i,
     name |-> "lib" \o ToString(i),
     full_name |-> "org/lib" \o ToString(i),
     description |-> "library " \o ToString(i),
     html_url |-> "https://github.com/org/lib" \o ToString(i),
     stargazers_count |-> 1000 + i,
     forks_count |-> i,
     language |-> "Go",
     owner |-> [login |-> "org", avatar_url |-> "https://avatars/org",
                html_url |-> "https://github.com/org"],
     updated_at |-> "2026-10-01T00:00:00.000Z",
     pushed_at |-> "2026-10-01T00:00:00.000Z",
     topics |-> << >>,
     license |-> "mit",
     size |-> 1,
     open_issues_count |-> 0,
     has_issues |-> TRUE,
     archived |-> FALSE]

\* Bodies of a successful answer of the search endpoint.
SearchBodies ==
    {EmptyResponse,
     [total_count |-> 100, incomplete_results |-> FALSE,
      items |-> << ApiRepo(1) >>, warning |-> ""],
     [total_count |-> 1, incomplete_results |-> TRUE,
      items |-> << ApiRepo(2) >>,
      warning |-> "API rate limit exceeded, results may be incomplete"]}

\* A response whose body parses as JSON; message is the message field of an
\* error body ("" when the body has none).
HttpResponse(status, statusText, body) ==
    [kind |-> "response", status |-> status, statusText |-> statusText,
     jsonOk |-> TRUE, body |-> body, message |-> ""]

HttpErrorResponse(status, statusText, message) ==
    [kind |-> "response", status |-> status, statusText |-> statusText,
     jsonOk |-> TRUE, body |-> EmptyResponse, message |-> message]

\* Outcomes of the request to the search endpoint.
SearchOutcomes ==
    {[kind |-> "networkError", status |-> 0, statusText |-> "",
      jsonOk |-> FALSE, body |-> EmptyResponse, message |-> ""]}
        \cup {HttpErrorResponse(403, "Forbidden",
                                "Resource not accessible by integration"),
              HttpErrorResponse(429, "Too Many Requests", ""),
              HttpErrorResponse(422, "Unprocessable Entity",
                                "Only the first 1000 search results are available"),
              HttpErrorResponse(500, "Internal Server Error", "Backend unavailable")}
        \cup {[kind |-> "response", status |-> 500,
               statusText |-> "Internal Server Error",
               jsonOk |-> FALSE, body |-> EmptyResponse, message |-> ""]}
        \cup {HttpResponse(200, "OK", b) : b \in SearchBodies}
        \cup {[kind |-> "response", status |-> 200, statusText |-> "OK",
               jsonOk |-> FALSE, body |-> EmptyResponse, message |-> ""]}

\* response.ok
ResponseOk(r) == r.status >= 200 /\ r.status <= 299

(***************************************************************************)
(* fetchTrendingProxy: the mapping of the feed to repositories.            *)
(***************************************************************************)
NormalizeTrendingNoCount(feed, offsets, t) ==
    [total_count |-> 0, incomplete_results |-> FALSE,
     items |-> [idx \in 1..Len(feed) |->
                  [id |-> (idx - 1) + 9990000 + offsets[idx],
                   name |-> feed[idx].name,
                   full_name |-> feed[idx].author \o "/" \o feed[idx].name,
                   description |-> feed[idx].description,
                   html_url |-> feed[idx].url,
                   stargazers_count |-> feed[idx].stars,
                   forks_count |-> feed[idx].forks,
                   language |-> feed[idx].language,
                   owner |-> [login |-> feed[idx].author,
                              avatar_url |-> feed[idx].avatar,
                              html_url |-> "https://github.com/" \o feed[idx].author],
                   updated_at |-> IsoTime(t),
                   pushed_at |-> IsoTime(t),
                   topics |-> << >>,
                   license |-> "",
                   size |-> 0,
                   open_issues_count |-> 0,
                   has_issues |-> TRUE,
                   archived |-> FALSE]],
     warning |-> ""]

NormalizeTrending(feed, offsets, t) ==
    LET items ==
            [idx \in 1..Len(feed) |->
                [id |-> (idx - 1) + 9990000 + offsets[idx],
                 name |-> feed[idx].name,
                 full_name |-> feed[idx].author \o "/" \o feed[idx].name,
                 description |-> feed[idx].description,
                 html_url |-> feed[idx].url,
                 stargazers_count |-> feed[idx].stars,
                 forks_count |-> feed[idx].forks,
                 language |-> feed[idx].language,
                 owner |-> [login |-> feed[idx].author,
                            avatar_url |-> feed[idx].avatar,
                            html_url |-> "https://github.com/" \o feed[idx].author],
                 updated_at |-> IsoTime(t),
                 pushed_at |-> IsoTime(t),
                 topics |-> << >>,
                 license |-> "",
                 size |-> 0,
                 open_issues_count |-> 0,
                 has_issues |-> TRUE,
                 archived |-> FALSE]]
    IN  [total_count |-> Len(items), incomplete_results |-> FALSE,
         items |-> items, warning |-> ""]

SearchErrorNo422(r) ==
    IF r.kind = "networkError" THEN "Failed to fetch"
    ELSE IF ~ResponseOk(r)
         THEN IF r.status = 403 \/ r.status = 429
              THEN "API Rate limit exceeded. Please try again in a moment."
              ELSE "GitHub API Error: " \o ToString(r.status) \o " " \o r.statusText
         ELSE IF ~r.jsonOk THEN "Unexpected token < in JSON at position 0"
         ELSE ""

SearchErrorStatusOnly(r) ==
    IF r.kind = "networkError" THEN "Failed to fetch"
    ELSE IF ~ResponseOk(r)
         THEN IF r.status = 403 \/ r.status = 429
              THEN "API Rate limit exceeded. Please try again in a moment."
              ELSE IF r.status = 422 THEN ""
              ELSE "GitHub API Error: " \o ToString(r.status)
         ELSE IF ~r.jsonOk THEN "Unexpected token < in JSON at position 0"
         ELSE ""

\* The error searchRepositories throws for a search outcome, "" when none.
SearchError(r) ==
    IF r.kind = "networkError" THEN "Failed to fetch"
    ELSE IF ~ResponseOk(r)
         THEN IF r.status = 403 \/ r.status = 429
              THEN "API Rate limit exceeded. Please try again in a moment."
              ELSE IF r.status = 422 THEN ""
              ELSE "GitHub API Error: " \o ToString(r.status) \o " " \o r.statusText
         ELSE IF ~r.jsonOk THEN "Unexpected token < in JSON at position 0"
         ELSE ""

\* searchData after a search outcome that does not throw.
SearchDataOf(r) == IF ResponseOk(r) THEN r.body ELSE EmptyResponse

(***************************************************************************)
(* State.                                                                  *)
(***************************************************************************)
VARIABLES
    now,            \* Date.now()
    cache,          \* the api_cache object store: key -> CacheEntry
    filters,        \* App: the filter state
    calls,          \* the invocations of searchRepositories in flight
    issued,         \* number of invocations started so far
    page,           \* App: page
    selectedUser,   \* App: selectedUser
    viewMode,       \* App: viewMode
    repos,          \* App: repos
    loading,        \* App: loading
    error,          \* App: error ("" is null)
    searchWarning,  \* App: searchWarning ("" is null)
    hasMore,        \* App: hasMore
    lastRequestId,  \* App: lastRequestId.current
    sessionRepos,   \* localStorage[REPOS_KEY]
    issueCall,      \* the invocation of getRepoIssues in flight
    authToken,      \* githubService: authToken
    localStorage,   \* localStorage, the items of the token and the history
    sessionItem,    \* what localStorage holds under REPOS_KEY
    recentSearches, \* FilterPanel: recentSearches
    login,          \* AuthModal: the handleSubmit in flight
    lookup,         \* the enrichment lookup in flight
    dbCall,         \* the getFromDB or saveToDB called on its own
    helperCall,     \* the last call of a synchronous helper and how it ended
    detail          \* RepoDetail: its issue state and its getRepoIssues calls

serviceVars == << now, cache, filters, calls, issued >>
appVars == << page, selectedUser, viewMode, repos, loading, error,
              searchWarning, hasMore, lastRequestId, sessionRepos >>
visibleVars == << repos, error, searchWarning, hasMore, loading, sessionRepos >>
issueVars == << issueCall, detail >>
otherHelperVars == << authToken, localStorage, recentSearches, login, lookup,
                     dbCall, helperCall >>
helperVars == << otherHelperVars, sessionItem >>
vars == << now, cache, filters, calls, issued, page, selectedUser, viewMode,
           repos, loading, error, searchWarning, hasMore, lastRequestId,
           sessionRepos, issueCall, authToken, localStorage, sessionItem,
           recentSearches, login, lookup, dbCall, helperCall, detail >>

Slots == 1..MaxInFlight

\* Moments at which something happens.
TimePoints ==
    {0, SEARCH_CACHE_TTL - 1, SEARCH_CACHE_TTL,
     BROWSING_CACHE_TTL - 1, BROWSING_CACHE_TTL}

DefaultFilters ==
    [query |-> "", language |-> << >>, license |-> "All", sort |-> "stars",
     order |-> "desc", minStars |-> 0, maxStars |-> MAX_STARS]

\* The filter states the cache flows are followed from.
FlowFilters ==
    {DefaultFilters,
     [DefaultFilters EXCEPT !.query = "react"],
     [DefaultFilters EXCEPT !.sort = "trending"],
     [DefaultFilters EXCEPT !.sort = "trending", !.language = <<"Rust">>],
     [DefaultFilters EXCEPT !.sort = "trending", !.language = <<"Rust", "Go">>],
     [DefaultFilters EXCEPT !.sort = "trending", !.minStars = 100],
     [DefaultFilters EXCEPT !.query = "react", !.sort = "trending",
                            !.language = <<"Rust">>]}

NoEntry == [key |-> "", data |-> EmptyResponse, timestamp |-> 0]

NoResponse ==
    [kind |-> "none", status |-> 0, statusText |-> "", jsonOk |-> FALSE,
     body |-> EmptyResponse, message |-> ""]

\* A slot in which no invocation runs.  The fields after searchData record
\* what the invocation did and what its caller captured.
IdleCall ==
    [pc |-> "idle",
     filters |-> DefaultFilters, page |-> 1, user |-> NoUser,
     cacheKey |-> "", ttl |-> 0,
     searchData |-> EmptyResponse,
     error |-> "",
     requests |-> << >>, headers |-> << >>,
     found |-> FALSE, entry |-> NoEntry, readAt |-> 0,
     wrote |-> FALSE,
     outcome |-> "",
     trending |-> "", feedSize |-> 0,
     response |-> NoResponse,
     stale |-> FALSE, afterLatest |-> FALSE,
     requestId |-> 0, isLoadMore |-> FALSE,
     reposAt |-> << >>, warningAt |-> ""]

Running(c) == calls[c].pc \in {"getFromDB", "fetchTrending", "fetchSearch", "saveToDB"}

(***************************************************************************)
(* getRepoIssues: its inputs, its request and what the network can answer. *)
(***************************************************************************)
ISSUES_CACHE_TTL == 1000 * 60 * 5

\* String.prototype.toLowerCase, on the letters the messages use.
LowerChar(ch) ==
    CASE ch = "A" -> "a" [] ch = "B" -> "b" [] ch = "C" -> "c" [] ch = "D" -> "d"
      [] ch = "E" -> "e" [] ch = "F" -> "f" [] ch = "G" -> "g" [] ch = "H" -> "h"
      [] ch = "I" -> "i" [] ch = "J" -> "j" [] ch = "K" -> "k" [] ch = "L" -> "l"
      [] ch = "M" -> "m" [] ch = "N" -> "n" [] ch = "O" -> "o" [] ch = "P" -> "p"
      [] ch = "Q" -> "q" [] ch = "R" -> "r" [] ch = "S" -> "s" [] ch = "T" -> "t"
      [] ch = "U" -> "u" [] ch = "V" -> "v" [] ch = "W" -> "w" [] ch = "X" -> "x"
      [] ch = "Y" -> "y" [] ch = "Z" -> "z" [] OTHER -> ch

RECURSIVE ToLowerFrom(_, _)
ToLowerFrom(s, i) ==
    IF i > Len(s) THEN ""
    ELSE LowerChar(SubSeq(s, i, i)) \o ToLowerFrom(s, i + 1)

ToLowerCase(s) == ToLowerFrom(s, 1)

\* encodeURIComponent, on the characters owner and repository names use.
EncodeChar(ch) ==
    CASE ch = " " -> "%20" [] ch = "/" -> "%2F" [] ch = "#" -> "%23"
      [] ch = "?" -> "%3F" [] ch = "&" -> "%26" [] OTHER -> ch

RECURSIVE EncodeFrom(_, _)
EncodeFrom(s, i) ==
    IF i > Len(s) THEN ""
    ELSE EncodeChar(SubSeq(s, i, i)) \o EncodeFrom(s, i + 1)

encodeURIComponent(s) == EncodeFrom(s, 1)

\* IssueFilterState values, in the field order RepoDetail builds them with.
DefaultIssueFilters == [sort |-> "created", direction |-> "desc", labels |-> << >>]

IssueFilterStates ==
    {DefaultIssueFilters,
     [sort |-> "comments", direction |-> "asc", labels |-> <<"bug", "help wanted">>]}

\* The repositories whose issues are listed: << owner, repo >>.
IssueTargets == {<<"octo", "hello">>, <<"octo", "hello_world">>}

\* JSON.stringify(filters)
IssueFiltersJson(f) ==
    "{\"sort\":" \o JsonString(f.sort)
        \o ",\"direction\":" \o JsonString(f.direction)
        \o ",\"labels\":" \o JsonStringArray(f.labels) \o "}"

\* `issues_${owner}_${repo}_${JSON.stringify(filters)}`
IssuesCacheKey(owner, repo, f) ==
    "issues_" \o owner \o "_" \o repo \o "_" \o IssueFiltersJson(f)

\* The request to the issues endpoint (path and URLSearchParams).
IssuesRequest(owner, repo, f) ==
    [endpoint |-> "issues",
     owner |-> encodeURIComponent(owner),
     repo |-> encodeURIComponent(repo),
     sort |-> IF f.sort = "comments" THEN "comments" ELSE f.sort,
     direction |-> f.direction,
     state |-> "open",
     per_page |-> "30",
     labels |-> IF Len(f.labels) > 0 THEN Join(f.labels, ",") ELSE ""]

\* An entry of the issues endpoint's list; pull_request is the pull-request
\* marker ("" when the entry has none).
RawIssue(i, isPull) ==
    [id |-> 500 + i,
     number |-> i,
     title |-> IF i = 1 THEN "API rate limit exceeded in CI"
               ELSE "entry " \o ToString(i),
     state |-> "open",
     comments |-> i,
     pull_request |-> IF isPull
                      THEN "https://api.github.com/repos/octo/hello/pulls/"
                               \o ToString(i)
                      ELSE ""]

RawIssueList(flags) == [i \in 1..Len(flags) |-> RawIssue(i, flags[i])]

\* Five issues and three pull requests.
FiveAndThree ==
    RawIssueList(<< FALSE, TRUE, FALSE, FALSE, TRUE, FALSE, TRUE, FALSE >>)

\* Every list of at most n entries, each an issue or a pull request.
RawIssueLists(n) ==
    {RawIssueList(flags) : flags \in UNION {[1..k -> BOOLEAN] : k \in 0..n}}
        \cup {FiveAndThree}

IssuesResponseOf(status, statusText, jsonOk, message) ==
    [kind |-> "response", status |-> status, statusText |-> statusText,
     jsonOk |-> jsonOk, message |-> message, isArray |-> FALSE, list |-> << >>]

\* Answers of the issues endpoint that are not a list of entries.
IssueFailureOutcomes ==
    {[kind |-> "networkError", status |-> 0, statusText |-> "",
      jsonOk |-> FALSE, message |-> "", isArray |-> FALSE, list |-> << >>],
     IssuesResponseOf(404, "Not Found", TRUE, "Not Found"),
     IssuesResponseOf(403, "Forbidden", TRUE, "API Rate Limit exceeded for 10.0.0.1."),
     IssuesResponseOf(403, "Forbidden", TRUE, "Resource not accessible by integration"),
     IssuesResponseOf(403, "Forbidden", FALSE, ""),
     IssuesResponseOf(429, "Too Many Requests", TRUE, ""),
     IssuesResponseOf(422, "Unprocessable Entity", TRUE, "Validation Failed"),
     IssuesResponseOf(500, "Internal Server Error", FALSE, ""),
     IssuesResponseOf(200, "OK", FALSE, ""),
     IssuesResponseOf(200, "OK", TRUE, "API rate limit exceeded")}

IssueListOutcomes(lists) ==
    {[kind |-> "response", status |-> 200, statusText |-> "OK",
      jsonOk |-> TRUE, message |-> "", isArray |-> TRUE, list |-> l] : l \in lists}

IssuesErrorMessageGeneric(r) ==
    "Error " \o ToString(r.status) \o ": " \o r.statusText

\* errorMessage of getRepoIssues for a non-success answer.
IssuesErrorMessage(r) ==
    IF r.jsonOk /\ r.message # ""
    THEN r.message
    ELSE "Error " \o ToString(r.status) \o ": " \o r.statusText

IssuesErrorEvery403RateLimited(r) ==
    IF r.kind = "networkError" THEN "Failed to fetch"
    ELSE IF ~ResponseOk(r)
         THEN IF r.status = 404 THEN "Issues are disabled or not found."
              ELSE IF r.status = 403 \/ r.status = 429
                   THEN "GitHub Rate Limit Exceeded. Try again later."
                   ELSE IssuesErrorMessage(r)
         ELSE IF ~r.jsonOk THEN "Unexpected token < in JSON at position 0"
         ELSE ""

IssuesErrorCaseSensitive(r) ==
    IF r.kind = "networkError" THEN "Failed to fetch"
    ELSE IF ~ResponseOk(r)
         THEN IF r.status = 404 THEN "Issues are disabled or not found."
              ELSE IF r.status = 403 \/ r.status = 429
                   THEN IF \/ r.status = 429
                           \/ Contains(IssuesErrorMessage(r), "rate limit")
                        THEN "GitHub Rate Limit Exceeded. Try again later."
                        ELSE IssuesErrorMessage(r)
                   ELSE IssuesErrorMessage(r)
         ELSE IF ~r.jsonOk THEN "Unexpected token < in JSON at position 0"
         ELSE ""

\* The error getRepoIssues throws for an answer, "" when none.
IssuesError(r) ==
    IF r.kind = "networkError" THEN "Failed to fetch"
    ELSE IF ~ResponseOk(r)
         THEN IF r.status = 404 THEN "Issues are disabled or not found."
              ELSE IF r.status = 403 \/ r.status = 429
                   THEN IF \/ r.status = 429
                           \/ Contains(ToLowerCase(IssuesErrorMessage(r)), "rate limit")
                        THEN "GitHub Rate Limit Exceeded. Try again later."
                        ELSE IssuesErrorMessage(r)
                   ELSE IssuesErrorMessage(r)
         ELSE IF ~r.jsonOk THEN "Unexpected token < in JSON at position 0"
         ELSE ""

\* issues.filter(i => !i.pull_request)
WithoutPullRequests(list) == SelectSeq(list, LAMBDA i : i.pull_request = "")

NoIssueEntry == [key |-> "", data |-> << >>, timestamp |-> 0]

NoIssuesResponse ==
    [kind |-> "none", status |-> 0, statusText |-> "", jsonOk |-> FALSE,
     message |-> "", isArray |-> FALSE, list |-> << >>]

\* No invocation of getRepoIssues runs.  The fields after error record what
\* the invocation did.
IdleIssueCall ==
    [pc |-> "idle",
     owner |-> "", repo |-> "", filters |-> DefaultIssueFilters,
     cacheKey |-> "",
     issues |-> << >>,
     error |-> "",
     requests |-> << >>, headers |-> << >>,
     found |-> FALSE, entry |-> NoIssueEntry, readAt |-> 0,
     wrote |-> FALSE,
     response |-> NoIssuesResponse]

IssueCallRunning == issueCall.pc \in {"getFromDB", "fetchIssues", "saveToDB"}

(***************************************************************************)
(* The helpers around the two listing operations: the records of their     *)
(* calls when none has been made.                                          *)
(***************************************************************************)
\* RepoDetail is not shown.  `made` counts its getRepoIssues calls, `pending`
\* holds those that have not settled, and `latest` is how the call made
\* last has settled.
NoDetailOutcome == [kind |-> "none", list |-> << >>, message |-> ""]

IdleDetail ==
    [mounted |-> FALSE, hasIssues |-> TRUE,
     issueFilters |-> DefaultIssueFilters,
     issues |-> << >>, issuesError |-> "", loadingIssues |-> FALSE,
     made |-> 0, pending |-> {}, latest |-> NoDetailOutcome]

\* No handleSubmit of the AuthModal runs.
\* No response of the identity endpoint.
NoValidateResponse == [kind |-> "none", status |-> 0, jsonOk |-> FALSE]

\* `tokenAt` and `storedAt` are the credential held and the storage when the
\* form was submitted.
IdleLogin ==
    [pc |-> "idle", input |-> "", token |-> "", headers |-> << >>,
     tokenAt |-> "", storedAt |-> << >>,
     response |-> NoValidateResponse, validation |-> "",
     result |-> "", error |-> "", isLoading |-> FALSE]

\* No enrichment lookup runs.
IdleLookup ==
    [pc |-> "idle", op |-> "", owner |-> "", repo |-> "", cacheKey |-> "",
     requests |-> << >>, headers |-> << >>,
     failure |-> "", outcome |-> "", value |-> "", wrote |-> FALSE]

\* Neither getFromDB nor saveToDB has been called on its own.
\* `puts` is the history of the calls: what each key was last written with
\* by a saveToDB that went through, and when.
NoDbEntry == [key |-> "", data |-> "", timestamp |-> 0]

IdleDbCall ==
    [pc |-> "idle", op |-> "", key |-> "", payload |-> "", stampedAt |-> 0,
     fault |-> "", outcome |-> "", found |-> FALSE, entry |-> NoDbEntry,
     puts |-> << >>]

\* No synchronous helper has been called.  `list` is the argument of the
\* call, `arg` the list of the last saveSessionRepos that went through,
\* while `savedOk` says that the item is still the one it wrote; `result` is
\* what getSessionRepos returned, a list when `resultKind` is "list";
\* `token` is the argument of setAuthToken and `heldBefore` the credential
\* it replaced; `query` is the argument of saveToHistory and `searchOrder`
\* the queries now in the history in the order saveToHistory last took
\* them, the latest first.
NoHelperCall ==
    [op |-> "", list |-> << >>, arg |-> << >>, savedOk |-> FALSE,
     fault |-> "", threw |-> FALSE, result |-> << >>, resultKind |-> "",
     token |-> "", heldBefore |-> "", query |-> "", searchOrder |-> << >>]

HelpersIdle ==
    /\ authToken = ""
    /\ localStorage = << >>
    /\ recentSearches = << >>
    /\ login = IdleLogin
    /\ lookup = IdleLookup
    /\ dbCall = IdleDbCall
    /\ helperCall = NoHelperCall

\* Nothing has been asked of the service and the page shows nothing yet.
ServiceIdle ==
    /\ now = 0
    /\ cache = << >>
    /\ calls = [c \in Slots |-> IdleCall]
    /\ issued = 0
    /\ page = 1
    /\ selectedUser = NoUser
    /\ viewMode = "search"
    /\ repos = << >>
    /\ loading = FALSE
    /\ error = ""
    /\ searchWarning = ""
    /\ hasMore = TRUE
    /\ lastRequestId = 0
    /\ sessionRepos = << >>
    /\ issueCall = IdleIssueCall
    /\ detail = IdleDetail

(***************************************************************************)
(* services/db.ts                                                          *)
(***************************************************************************)
\* getFromDB: request.result || null
HasEntry(store, key) == key \in DOMAIN store

PutEntryNonEmpty(store, key, data, t) ==
    IF Len(data.items) = 0 THEN store
    ELSE (key :> [key |-> key, data |-> data, timestamp |-> t]) @@ store

PutEntryEvictOthers(store, key, data, t) ==
    (key :> [key |-> key, data |-> data, timestamp |-> t])

PutEntryKeepStamp(store, key, data, t) ==
    (key :> [key |-> key, data |-> data,
             timestamp |-> IF key \in DOMAIN store
                           THEN store[key].timestamp ELSE t]) @@ store

\* saveToDB: store.put({ key, data, timestamp: Date.now() })
PutEntry(store, key, data, t) ==
    (key :> [key |-> key, data |-> data, timestamp |-> t]) @@ store

(***************************************************************************)
(* searchRepositories, one action per suspension point.                    *)
(***************************************************************************)
\* The call up to `await getFromDB(cacheKey)`.
StartCall(c, f, p, u, rid, more, captured, warn) ==
    /\ issued < MaxCalls
    /\ calls' = [calls EXCEPT ![c] =
                    [IdleCall EXCEPT
                        !.pc = "getFromDB",
                        !.filters = f, !.page = p, !.user = u,
                        !.cacheKey = getCacheKey(f, p, u),
                        !.ttl = TtlFor(f),
                        !.requestId = rid, !.isLoadMore = more,
                        !.reposAt = captured, !.warningAt = warn]]
    /\ issued' = issued + 1

\* A caller that awaits each call before the next invokes
\* searchRepositories(filters, page, u).
Invoke(u) ==
    /\ \A c \in Slots : ~Running(c)
    /\ StartCall(1, filters, page, u, 0, FALSE, << >>, "")
    /\ UNCHANGED << now, cache, filters >>
    /\ UNCHANGED appVars
    /\ UNCHANGED helperVars
    /\ UNCHANGED issueVars

\* The request a call sends first when the cache does not serve it.
FirstRequest(call, t) ==
    IF UsesTrendingProxy(call.filters, call.user)
    THEN TrendingRequest(TrendingLang(call.filters))
    ELSE SearchRequest(call.filters, call.page, call.user, t)

\* Its headers: fetchTrendingProxy calls fetch(url) with none.
FirstHeaders(call, token) ==
    IF UsesTrendingProxy(call.filters, call.user)
    THEN NoHeaders
    ELSE getHeaders(DefaultAccept, token)

CacheReadTouch(c) ==
    LET call == calls[c]
        found == HasEntry(cache, call.cacheKey)
        entry == IF found THEN cache[call.cacheKey] ELSE NoEntry
        read == [call EXCEPT !.found = found, !.entry = entry, !.readAt = now]
        hit == found /\ IsFresh(entry, call.ttl, now)
    IN  /\ call.pc = "getFromDB"
        /\ calls' = [calls EXCEPT ![c] =
              IF hit
              THEN [read EXCEPT !.pc = "returned", !.searchData = entry.data]
              ELSE [read EXCEPT
                       !.pc = IF UsesTrendingProxy(call.filters, call.user)
                              THEN "fetchTrending" ELSE "fetchSearch",
                       !.requests = Append(@, FirstRequest(call, now)),
                       !.headers = Append(@, FirstHeaders(call, authToken))]]
        /\ cache' = IF hit
                    THEN PutEntry(cache, call.cacheKey, entry.data, now)
                    ELSE cache
        /\ UNCHANGED << now, filters, issued >>
        /\ UNCHANGED appVars
        /\ UNCHANGED helperVars
        /\ UNCHANGED issueVars

\* getFromDB resolves: serve a fresh entry, else send the first request.
CacheRead(c) ==
    LET call == calls[c]
        found == HasEntry(cache, call.cacheKey)
        entry == IF found THEN cache[call.cacheKey] ELSE NoEntry
        read == [call EXCEPT !.found = found, !.entry = entry, !.readAt = now]
    IN  /\ call.pc = "getFromDB"
        /\ calls' = [calls EXCEPT ![c] =
              IF found /\ IsFresh(entry, call.ttl, now)
              THEN [read EXCEPT !.pc = "returned", !.searchData = entry.data]
              ELSE [read EXCEPT
                       !.pc = IF UsesTrendingProxy(call.filters, call.user)
                              THEN "fetchTrending" ELSE "fetchSearch",
                       !.requests = Append(@, FirstRequest(call, now)),
                       !.headers = Append(@, FirstHeaders(call, authToken))]]
        /\ UNCHANGED << now, cache, filters, issued >>
        /\ UNCHANGED appVars
        /\ UNCHANGED helperVars
        /\ UNCHANGED issueVars

TrendingResponseRethrow(c, out, offsets) ==
    LET call == calls[c]
    IN  /\ call.pc = "fetchTrending"
        /\ calls' = [calls EXCEPT ![c] =
              IF out.kind = "feed" /\ out.n > 0
              THEN [call EXCEPT
                       !.pc = "saveToDB",
                       !.trending = "items",
                       !.feedSize = out.n,
                       !.searchData = NormalizeTrending(Feed(out.n), offsets, now)]
              ELSE IF out.kind = "feed"
                   THEN [call EXCEPT
                            !.pc = "fetchSearch",
                            !.trending = "empty",
                            !.requests = Append(@,
                                SearchRequest(call.filters, call.page, call.user, now)),
                            !.headers = Append(@, getHeaders(DefaultAccept, authToken))]
                   ELSE [call EXCEPT
                            !.pc = "raised",
                            !.trending = "failed",
                            !.error = "Trending Proxy Error"]]
        /\ UNCHANGED << now, cache, filters, issued >>
        /\ UNCHANGED appVars
        /\ UNCHANGED helperVars
        /\ UNCHANGED issueVars

\* The trending proxy answers (or the request fails).
TrendingResponse(c, out, offsets) ==
    LET call == calls[c]
    IN  /\ call.pc = "fetchTrending"
        /\ calls' = [calls EXCEPT ![c] =
              IF out.kind = "feed" /\ out.n > 0
              THEN [call EXCEPT
                       !.pc = "saveToDB",
                       !.trending = "items",
                       !.feedSize = out.n,
                       !.searchData = NormalizeTrending(Feed(out.n), offsets, now)]
              ELSE [call EXCEPT
                       !.pc = "fetchSearch",
                       !.trending = IF out.kind = "feed" THEN "empty" ELSE "failed",
                       !.requests = Append(@,
                           SearchRequest(call.filters, call.page, call.user, now)),
                       !.headers = Append(@, getHeaders(DefaultAccept, authToken))]]
        /\ UNCHANGED << now, cache, filters, issued >>
        /\ UNCHANGED appVars
        /\ UNCHANGED helperVars
        /\ UNCHANGED issueVars

SearchResponseRetry(c, out) ==
    LET call == calls[c]
    IN  /\ call.pc = "fetchSearch"
        /\ calls' = [calls EXCEPT ![c] =
              IF out.kind = "networkError" /\ Len(call.requests) < 3
              THEN [call EXCEPT
                       !.response = out,
                       !.requests = Append(@, call.requests[Len(call.requests)]),
                       !.headers = Append(@, call.headers[Len(call.headers)])]
              ELSE IF SearchError(out) # ""
              THEN [call EXCEPT !.pc = "raised", !.response = out,
                                !.error = SearchError(out)]
              ELSE [call EXCEPT !.pc = "saveToDB", !.response = out,
                                !.searchData = SearchDataOf(out)]]
        /\ UNCHANGED << now, cache, filters, issued >>
        /\ UNCHANGED appVars
        /\ UNCHANGED helperVars
        /\ UNCHANGED issueVars

SearchResponseSaveOnError(c, out) ==
    LET call == calls[c]
    IN  /\ call.pc = "fetchSearch"
        /\ calls' = [calls EXCEPT ![c] =
              IF SearchError(out) # ""
              THEN [call EXCEPT !.pc = "raised", !.response = out,
                                !.error = SearchError(out)]
              ELSE [call EXCEPT !.pc = "saveToDB", !.response = out,
                                !.searchData = SearchDataOf(out)]]
        /\ cache' = IF SearchError(out) # ""
                    THEN PutEntry(cache, call.cacheKey, EmptyResponse, now)
                    ELSE cache
        /\ UNCHANGED << now, filters, issued >>
        /\ UNCHANGED appVars
        /\ UNCHANGED helperVars
        /\ UNCHANGED issueVars

\* The search endpoint answers (or the request fails).
SearchResponse(c, out) ==
    LET call == calls[c]
    IN  /\ call.pc = "fetchSearch"
        /\ calls' = [calls EXCEPT ![c] =
              IF SearchError(out) # ""
              THEN [call EXCEPT !.pc = "raised", !.response = out,
                                !.error = SearchError(out)]
              ELSE [call EXCEPT !.pc = "saveToDB", !.response = out,
                                !.searchData = SearchDataOf(out)]]
        /\ UNCHANGED << now, cache, filters, issued >>
        /\ UNCHANGED appVars
        /\ UNCHANGED helperVars
        /\ UNCHANGED issueVars

\* await saveToDB(cacheKey, searchData); return searchData
SaveToDB(c) ==
    LET call == calls[c]
    IN  /\ call.pc = "saveToDB"
        /\ cache' = PutEntry(cache, call.cacheKey, call.searchData, now)
        /\ calls' = [calls EXCEPT ![c] = [call EXCEPT !.pc = "returned", !.wrote = TRUE]]
        /\ UNCHANGED << now, filters, issued >>
        /\ UNCHANGED appVars
        /\ UNCHANGED helperVars
        /\ UNCHANGED issueVars

\* Time passes.
Tick(t) ==
    /\ t > now
    /\ now' = t
    /\ UNCHANGED << cache, filters, calls, issued >>
    /\ UNCHANGED appVars
    /\ UNCHANGED helperVars
    /\ UNCHANGED issueVars

(***************************************************************************)
(* The service on its own: searchRepositories under any caller.            *)
(***************************************************************************)
Init ==
    /\ now = 0
    /\ cache = << >>
    /\ filters \in FlowFilters
    /\ calls = [c \in Slots |-> IdleCall]
    /\ issued = 0
    /\ page = 1
    /\ selectedUser = NoUser
    /\ viewMode = "search"
    /\ repos = << >>
    /\ loading = FALSE
    /\ error = ""
    /\ searchWarning = ""
    /\ hasMore = TRUE
    /\ lastRequestId = 0
    /\ sessionRepos = << >>
    /\ issueCall = IdleIssueCall
    /\ detail = IdleDetail
    /\ HelpersIdle
    /\ sessionItem = "array"

Next ==
    \/ \E u \in Users : Invoke(u)
    \/ \E c \in Slots : CacheRead(c)
    \/ \E c \in Slots, out \in TrendingOutcomes :
          \E offsets \in [1..out.n -> RandomOffsets] : TrendingResponse(c, out, offsets)
    \/ \E c \in Slots, out \in SearchOutcomes : SearchResponse(c, out)
    \/ \E c \in Slots : SaveToDB(c)
    \/ \E t \in TimePoints : Tick(t)

Spec == Init /\ [][Next]_vars

(***************************************************************************)
(* The strategy resolver on its own: the first invocation after start-up,  *)
(* for every filter state, page and user scope.                            *)
(***************************************************************************)
InvokeFirst(u) == issued = 0 /\ Invoke(u)

InitResolve ==
    /\ now = 0
    /\ cache = << >>
    /\ filters \in FilterStates
    /\ calls = [c \in Slots |-> IdleCall]
    /\ issued = 0
    /\ page \in Pages
    /\ selectedUser = NoUser
    /\ viewMode = "search"
    /\ repos = << >>
    /\ loading = FALSE
    /\ error = ""
    /\ searchWarning = ""
    /\ hasMore = TRUE
    /\ lastRequestId = 0
    /\ sessionRepos = << >>
    /\ issueCall = IdleIssueCall
    /\ detail = IdleDetail
    /\ HelpersIdle
    /\ sessionItem = "array"

NextResolve ==
    \/ \E u \in Users : InvokeFirst(u)
    \/ \E c \in Slots : CacheRead(c)
    \/ \E c \in Slots, out \in TrendingOutcomes :
          \E offsets \in [1..out.n -> RandomOffsets] : TrendingResponse(c, out, offsets)
    \/ \E c \in Slots, out \in SearchOutcomes : SearchResponse(c, out)
    \/ \E c \in Slots : SaveToDB(c)

SpecResolve == InitResolve /\ [][NextResolve]_vars

(***************************************************************************)
(* App.tsx: fetchData and the request fence.                               *)
(***************************************************************************)
SessionSliceAll(list) == list

\* saveSessionRepos: repos.slice(0, 50)
SessionSlice(list) == SubSeq(list, 1, IF Len(list) < 50 THEN Len(list) ELSE 50)

FreeSlots == {c \in Slots : calls[c].pc \in {"idle", "settled"}}
FreeSlot == CHOOSE c \in FreeSlots : \A d \in FreeSlots : c <= d

\* fetchData(isLoadMore) up to `await searchRepositories(...)`, run by the
\* callback that closed over page p and filters f.
BeginFetch(more, p, f) ==
    LET isBackgroundRefresh ==
            ~more /\ p = 1 /\ Len(repos) > 0 /\ lastRequestId = 0
        warn == IF more THEN searchWarning ELSE ""
    IN  /\ FreeSlots # {}
        /\ loading' = (IF isBackgroundRefresh THEN loading ELSE TRUE)
        /\ error' = ""
        /\ searchWarning' = warn
        /\ lastRequestId' = lastRequestId + 1
        /\ StartCall(FreeSlot, f, IF more THEN p ELSE 1, selectedUser,
                     lastRequestId + 1, more, repos, warn)

\* An invocation of fetchData (handleSearch, or the effect firing again).
FetchData(more) ==
    /\ viewMode # "about"
    /\ BeginFetch(more, page, filters)
    /\ UNCHANGED << helperVars, issueVars, now, cache, filters, page, selectedUser, viewMode, repos,
                    hasMore, sessionRepos >>

\* The "load more" button: setPage(prev => prev + 1), then the page effect.
LoadMore ==
    /\ viewMode # "about"
    /\ ~loading /\ error = "" /\ hasMore
    /\ page < MaxPage
    /\ page' = page + 1
    /\ BeginFetch(TRUE, page + 1, filters)
    /\ UNCHANGED << helperVars, issueVars, now, cache, filters, selectedUser, viewMode, repos,
                    hasMore, sessionRepos >>

\* toggleAbout: into the about view, or back (the effect then fetches).
ToggleAbout ==
    IF viewMode # "about"
    THEN /\ viewMode' = "about"
         /\ UNCHANGED << helperVars, issueVars, serviceVars, page, selectedUser, repos, loading, error,
                         searchWarning, hasMore, lastRequestId, sessionRepos >>
    ELSE /\ viewMode' = (IF selectedUser # NoUser THEN "user" ELSE "search")
         /\ BeginFetch(page # 1, page, filters)
         /\ UNCHANGED << helperVars, issueVars, now, cache, filters, page, selectedUser, repos,
                         hasMore, sessionRepos >>

\* The visible state after the call in slot c has been applied.
AppliedRepos(call) ==
    IF call.pc = "returned"
    THEN IF call.isLoadMore
         THEN call.reposAt \o call.searchData.items
         ELSE call.searchData.items
    ELSE IF call.isLoadMore THEN repos ELSE << >>

AppliedHasMore(call) ==
    ~(/\ Len(call.searchData.items) < ITEMS_PER_PAGE
      /\ call.searchData.total_count < ITEMS_PER_PAGE * call.page)

OutdatedNever(call) == FALSE

\* requestId !== lastRequestId.current
Outdated(call) == call.requestId # lastRequestId

\* What is left of a call once fetchData has finished with it: its outcome
\* and what fetchData had captured.
Settled(call) ==
    [IdleCall EXCEPT
        !.pc = "settled", !.outcome = call.pc, !.stale = Outdated(call),
        !.afterLatest = (\E d \in Slots : /\ calls[d].pc = "settled"
                                          /\ calls[d].requestId = lastRequestId),
        !.page = call.page,
        !.searchData = call.searchData, !.error = call.error,
        !.requestId = call.requestId, !.isLoadMore = call.isLoadMore,
        !.reposAt = call.reposAt, !.warningAt = call.warningAt]

SettleLoadingOnResultOnly(c) ==
    LET call == calls[c]
    IN  /\ call.pc \in {"returned", "raised"}
        /\ calls' = [calls EXCEPT ![c] = Settled(call)]
        /\ IF Outdated(call)
           THEN UNCHANGED << repos, sessionRepos, sessionItem, hasMore,
                             searchWarning, error, loading >>
           ELSE IF call.pc = "returned"
                THEN /\ searchWarning' = (IF call.searchData.warning # ""
                                          THEN call.searchData.warning
                                          ELSE searchWarning)
                     /\ repos' = AppliedRepos(call)
                     /\ sessionRepos' = SessionSlice(AppliedRepos(call))
                     /\ sessionItem' = "array"
                     /\ hasMore' = AppliedHasMore(call)
                     /\ loading' = FALSE
                     /\ UNCHANGED error
                ELSE /\ error' = (IF call.error # "" THEN call.error
                                  ELSE "An unexpected error occurred.")
                     /\ repos' = AppliedRepos(call)
                     /\ UNCHANGED << sessionRepos, sessionItem, hasMore,
                                     searchWarning, loading >>
        /\ UNCHANGED << otherHelperVars, issueVars, now, cache, filters, issued,
                        page, selectedUser, viewMode, lastRequestId >>

\* fetchData after `await searchRepositories(...)`: try, catch and finally.
Settle(c) ==
    LET call == calls[c]
    IN  /\ call.pc \in {"returned", "raised"}
        /\ calls' = [calls EXCEPT ![c] = Settled(call)]
        /\ IF Outdated(call)
           THEN UNCHANGED << repos, sessionRepos, sessionItem, hasMore,
                             searchWarning, error, loading >>
           ELSE IF call.pc = "returned"
                THEN /\ searchWarning' = (IF call.searchData.warning # ""
                                          THEN call.searchData.warning
                                          ELSE searchWarning)
                     /\ repos' = AppliedRepos(call)
                     /\ sessionRepos' = SessionSlice(AppliedRepos(call))
                     /\ sessionItem' = "array"
                     /\ hasMore' = AppliedHasMore(call)
                     /\ loading' = FALSE
                     /\ UNCHANGED error
                ELSE /\ error' = (IF call.error # "" THEN call.error
                                  ELSE "An unexpected error occurred.")
                     /\ repos' = AppliedRepos(call)
                     /\ loading' = FALSE
                     /\ UNCHANGED << sessionRepos, sessionItem, hasMore,
                                     searchWarning >>
        /\ UNCHANGED << otherHelperVars, issueVars, now, cache, filters, issued,
                        page, selectedUser, viewMode, lastRequestId >>

\* The filter states the application is followed from.
AppFilters == {DefaultFilters}

\* The answers of the search endpoint the application is followed under.
AppSearchOutcomes ==
    {out \in SearchOutcomes :
        /\ out.kind = "response"
        /\ out.status \in {200, 429}
        /\ out.jsonOk
        /\ out.status = 200 => Len(out.body.items) > 0}

\* What getSessionRepos can find at start-up.
SessionSnapshots == {<< >>, << ApiRepo(3) >>}

InitApp ==
    /\ now = 0
    /\ cache = << >>
    /\ filters \in AppFilters
    /\ calls = [c \in Slots |-> IdleCall]
    /\ issued = 0
    /\ page = 1
    /\ selectedUser = NoUser
    /\ viewMode = "search"
    /\ sessionRepos \in SessionSnapshots
    /\ issueCall = IdleIssueCall
    /\ detail = IdleDetail
    /\ HelpersIdle
    /\ sessionItem = "array"
    /\ repos = sessionRepos
    /\ loading = FALSE
    /\ error = ""
    /\ searchWarning = ""
    /\ hasMore = TRUE
    /\ lastRequestId = 0

NextApp ==
    \/ \E more \in BOOLEAN : FetchData(more)
    \/ LoadMore
    \/ ToggleAbout
    \/ \E c \in Slots : CacheRead(c)
    \/ \E c \in Slots, out \in AppSearchOutcomes : SearchResponse(c, out)
    \/ \E c \in Slots : SaveToDB(c)
    \/ \E c \in Slots : Settle(c)

SpecApp == InitApp /\ [][NextApp]_vars

\* The application when every request that was issued settles: the store
\* and the network answer, and the continuation of fetchData then runs.
AppFairness ==
    \A c \in Slots :
        /\ WF_vars(CacheRead(c))
        /\ WF_vars(\E out \in AppSearchOutcomes : SearchResponse(c, out))
        /\ WF_vars(SaveToDB(c))
        /\ WF_vars(Settle(c))

\* As NextApp, the user issuing at most as many requests as can overlap.
NextAppLive ==
    \/ issued < MaxInFlight /\ \E more \in BOOLEAN : FetchData(more)
    \/ issued < MaxInFlight /\ LoadMore
    \/ issued < MaxInFlight /\ ToggleAbout
    \/ \E c \in Slots : CacheRead(c)
    \/ \E c \in Slots, out \in AppSearchOutcomes : SearchResponse(c, out)
    \/ \E c \in Slots : SaveToDB(c)
    \/ \E c \in Slots : Settle(c)

SpecAppLive == InitApp /\ [][NextAppLive]_vars /\ AppFairness

(***************************************************************************)
(* getRepoIssues, one action per suspension point.                         *)
(***************************************************************************)
IssuesFreshInclusive(entry, t) == t - entry.timestamp <= ISSUES_CACHE_TTL

\* Date.now() - cached.timestamp < ISSUES_CACHE_TTL
IssuesFresh(entry, t) == t - entry.timestamp < ISSUES_CACHE_TTL

\* getRepoIssues(owner, repo, f) up to `await getFromDB(cacheKey)`, invoked
\* by a caller that awaits each call before the next.
InvokeIssues(owner, repo, f) ==
    /\ issued < MaxCalls
    /\ ~IssueCallRunning
    /\ issueCall' = [IdleIssueCall EXCEPT
                        !.pc = "getFromDB",
                        !.owner = owner, !.repo = repo, !.filters = f,
                        !.cacheKey = IssuesCacheKey(owner, repo, f)]
    /\ issued' = issued + 1
    /\ UNCHANGED << now, cache, filters, calls, detail >>
    /\ UNCHANGED appVars
    /\ UNCHANGED helperVars

\* getFromDB resolves: serve a fresh entry, else send the issues request.
IssuesCacheRead ==
    LET call == issueCall
        found == HasEntry(cache, call.cacheKey)
        entry == IF found THEN cache[call.cacheKey] ELSE NoIssueEntry
        read == [call EXCEPT !.found = found, !.entry = entry, !.readAt = now]
    IN  /\ call.pc = "getFromDB"
        /\ issueCall' =
              IF found /\ IssuesFresh(entry, now)
              THEN [read EXCEPT !.pc = "returned", !.issues = entry.data]
              ELSE [read EXCEPT
                       !.pc = "fetchIssues",
                       !.requests = Append(@,
                           IssuesRequest(call.owner, call.repo, call.filters)),
                       !.headers = Append(@, getHeaders(DefaultAccept, authToken))]
        /\ UNCHANGED << now, cache, filters, calls, issued, detail >>
        /\ UNCHANGED appVars
        /\ UNCHANGED helperVars

IssuesResponseKeepAll(out) ==
    LET call == issueCall
    IN  /\ call.pc = "fetchIssues"
        /\ issueCall' =
              IF IssuesError(out) # ""
              THEN [call EXCEPT !.pc = "raised", !.response = out,
                                !.error = IssuesError(out)]
              ELSE IF ~out.isArray
                   THEN [call EXCEPT !.pc = "returned", !.response = out,
                                     !.issues = << >>]
                   ELSE [call EXCEPT !.pc = "saveToDB", !.response = out,
                                     !.issues = out.list]
        /\ UNCHANGED << now, cache, filters, calls, issued, detail >>
        /\ UNCHANGED appVars
        /\ UNCHANGED helperVars

IssuesResponseDegrade(out) ==
    LET call == issueCall
    IN  /\ call.pc = "fetchIssues"
        /\ issueCall' =
              IF IssuesError(out) # "" /\ out.kind = "response" /\ out.status = 422
              THEN [call EXCEPT !.pc = "returned", !.response = out,
                                !.issues = << >>]
              ELSE IF IssuesError(out) # ""
              THEN [call EXCEPT !.pc = "raised", !.response = out,
                                !.error = IssuesError(out)]
              ELSE IF ~out.isArray
                   THEN [call EXCEPT !.pc = "returned", !.response = out,
                                     !.issues = << >>]
                   ELSE [call EXCEPT !.pc = "saveToDB", !.response = out,
                                     !.issues = WithoutPullRequests(out.list)]
        /\ UNCHANGED << now, cache, filters, calls, issued, detail >>
        /\ UNCHANGED appVars
        /\ UNCHANGED helperVars

\* The issues endpoint answers (or the request fails).
IssuesResponse(out) ==
    LET call == issueCall
    IN  /\ call.pc = "fetchIssues"
        /\ issueCall' =
              IF IssuesError(out) # ""
              THEN [call EXCEPT !.pc = "raised", !.response = out,
                                !.error = IssuesError(out)]
              ELSE IF ~out.isArray
                   THEN [call EXCEPT !.pc = "returned", !.response = out,
                                     !.issues = << >>]
                   ELSE [call EXCEPT !.pc = "saveToDB", !.response = out,
                                     !.issues = WithoutPullRequests(out.list)]
        /\ UNCHANGED << now, cache, filters, calls, issued, detail >>
        /\ UNCHANGED appVars
        /\ UNCHANGED helperVars

\* await saveToDB(cacheKey, issues); return issues
IssuesSave ==
    LET call == issueCall
    IN  /\ call.pc = "saveToDB"
        /\ cache' = PutEntry(cache, call.cacheKey, call.issues, now)
        /\ issueCall' = [call EXCEPT !.pc = "returned", !.wrote = TRUE]
        /\ UNCHANGED << now, filters, calls, issued, detail >>
        /\ UNCHANGED appVars
        /\ UNCHANGED helperVars

InitIssues ==
    /\ now = 0
    /\ cache = << >>
    /\ filters = DefaultFilters
    /\ calls = [c \in Slots |-> IdleCall]
    /\ issued = 0
    /\ page = 1
    /\ selectedUser = NoUser
    /\ viewMode = "search"
    /\ repos = << >>
    /\ loading = FALSE
    /\ error = ""
    /\ searchWarning = ""
    /\ hasMore = TRUE
    /\ lastRequestId = 0
    /\ sessionRepos = << >>
    /\ issueCall = IdleIssueCall
    /\ detail = IdleDetail
    /\ HelpersIdle
    /\ sessionItem = "array"

\* The moments at which the issue cache is looked at.
IssueTimePoints ==
    {0, ISSUES_CACHE_TTL - 1, ISSUES_CACHE_TTL, 2 * ISSUES_CACHE_TTL - 1}

\* The answers the cache flows are followed with.
FlowIssueOutcomes ==
    {r \in IssueFailureOutcomes : r.status \in {0, 404, 429}}
        \cup IssueListOutcomes({<< >>,
                                RawIssueList(<< FALSE, TRUE >>),
                                RawIssueList(<< TRUE, FALSE, FALSE >>)})

\* Issue listing under a caller that repeats and varies its calls over time.
NextIssues ==
    \/ \E target \in IssueTargets, f \in IssueFilterStates :
          InvokeIssues(target[1], target[2], f)
    \/ IssuesCacheRead
    \/ \E out \in FlowIssueOutcomes : IssuesResponse(out)
    \/ IssuesSave
    \/ \E t \in IssueTimePoints : Tick(t)

SpecIssues == InitIssues /\ [][NextIssues]_vars

\* The first call of either listing operation after start-up, for every
\* answer of its endpoint.
InvokeIssuesFirst(owner, repo, f) == issued = 0 /\ InvokeIssues(owner, repo, f)

ListingSearchOutcomes ==
    SearchOutcomes
        \cup {HttpErrorResponse(403, "Forbidden",
                                "API rate limit exceeded for 10.0.0.1.")}

ListingIssueOutcomes ==
    IssueFailureOutcomes \cup IssueListOutcomes(RawIssueLists(MaxIssues))

\* Start-up with any of the filters of the flows, so that a first search
\* goes to the trending feed or to the search endpoint.
InitListing ==
    /\ ServiceIdle
    /\ filters \in FlowFilters
    /\ HelpersIdle
    /\ sessionItem = "array"

NextListing ==
    \/ \E u \in Users : InvokeFirst(u)
    \/ \E c \in Slots : CacheRead(c)
    \/ \E c \in Slots, out \in TrendingOutcomes :
          \E offsets \in [1..out.n -> RandomOffsets] : TrendingResponse(c, out, offsets)
    \/ \E c \in Slots, out \in ListingSearchOutcomes : SearchResponse(c, out)
    \/ \E c \in Slots : SaveToDB(c)
    \/ \E target \in IssueTargets, f \in IssueFilterStates :
          InvokeIssuesFirst(target[1], target[2], f)
    \/ IssuesCacheRead
    \/ \E out \in ListingIssueOutcomes : IssuesResponse(out)
    \/ IssuesSave

SpecListing == InitListing /\ [][NextListing]_vars

(***************************************************************************)
(* The enrichment lookups: getRepositoryReadme, getRepoLanguages,          *)
(* getRepoLabels, getUserProfile and getUserTopRepos.                      *)
(***************************************************************************)
LookupOps ==
    {"getRepositoryReadme", "getRepoLanguages", "getRepoLabels",
     "getUserProfile", "getUserTopRepos"}

\* The value each lookup returns from its failure branches.
EmptyValue(op) ==
    CASE op = "getRepositoryReadme" -> "null"
      [] op = "getRepoLanguages" -> "{}"
      [] op = "getRepoLabels" -> "[]"
      [] op = "getUserProfile" -> "null"
      [] op = "getUserTopRepos" -> "[]"

\* 1000 * 60 * 60 * 24, the age below which cached languages are served.
LANGUAGES_CACHE_TTL == 1000 * 60 * 60 * 24

\* `languages_${owner}_${repo}`
LanguagesCacheKey(owner, repo) == "languages_" \o owner \o "_" \o repo

\* The request of a lookup; for the two user lookups `owner` is the user name
\* and `repo` is "".
LookupRequest(op, owner, repo) ==
    CASE op = "getRepositoryReadme" ->
            [url |-> "https://api.github.com/repos/" \o encodeURIComponent(owner)
                        \o "/" \o encodeURIComponent(repo) \o "/readme",
             q |-> ""]
      [] op = "getRepoLanguages" ->
            [url |-> "https://api.github.com/repos/" \o encodeURIComponent(owner)
                        \o "/" \o encodeURIComponent(repo) \o "/languages",
             q |-> ""]
      [] op = "getRepoLabels" ->
            [url |-> "https://api.github.com/repos/" \o encodeURIComponent(owner)
                        \o "/" \o encodeURIComponent(repo) \o "/labels?per_page=100",
             q |-> ""]
      [] op = "getUserProfile" ->
            [url |-> "https://api.github.com/users/" \o encodeURIComponent(owner),
             q |-> ""]
      [] op = "getUserTopRepos" ->
            [url |-> "https://api.github.com/search/repositories",
             q |-> "user:" \o owner]

\* The Accept header of a lookup.
LookupAccept(op) ==
    IF op = "getRepositoryReadme" THEN "application/vnd.github.html"
    ELSE DefaultAccept

\* What the network can answer to a lookup: no answer at all, a non-success
\* status, a success whose body cannot be read, and a success with a body.
\* The body "blank" is a text of white space only, "noItems" an object
\* without items, "data" the content asked for.
LookupOutcomes ==
    {[kind |-> "networkError", status |-> 0, bodyOk |-> FALSE, body |-> ""]}
        \cup {[kind |-> "http", status |-> st, bodyOk |-> b, body |-> ""] :
                 st \in {403, 404, 500}, b \in BOOLEAN}
        \cup {[kind |-> "http", status |-> 200, bodyOk |-> FALSE, body |-> ""]}
        \cup {[kind |-> "http", status |-> 200, bodyOk |-> TRUE, body |-> c] :
                 c \in {"data", "blank", "noItems"}}

\* The answers each lookup can get: a blank text is no JSON document.
LookupOutcomesOf(op) ==
    {out \in LookupOutcomes :
        out.body = "blank" => op = "getRepositoryReadme"}

\* How the three ways for getFromDB and saveToDB to end show to their
\* caller: done, failed inside (absent, or nothing written), rejected.
DbOutcomes == {"ok", "swallowed", "rejected"}

\* The failure an answer is, "" when it is none.
LookupFailure(out) ==
    IF out.kind = "networkError" THEN "transport"
    ELSE IF out.status < 200 \/ out.status > 299 THEN "status"
    ELSE IF ~out.bodyOk THEN "body"
    ELSE ""

\* What a lookup returns for an answer.
LookupValue(op, out) ==
    IF LookupFailure(out) # "" THEN EmptyValue(op)
    ELSE IF op = "getRepositoryReadme" /\ out.body = "blank" THEN "null"
    ELSE IF op = "getUserTopRepos" /\ out.body = "noItems" THEN "[]"
    ELSE out.body

LookupRunning == lookup.pc \in {"getFromDB", "fetch", "saveToDB"}

\* A lookup is called: getRepoLanguages up to `await getFromDB(cacheKey)`,
\* the others up to `await fetch(...)`.
InvokeLookup(op, owner, repo) ==
    /\ issued < MaxCalls
    /\ ~LookupRunning
    /\ lookup' =
          IF op = "getRepoLanguages"
          THEN [IdleLookup EXCEPT
                   !.pc = "getFromDB", !.op = op,
                   !.owner = owner, !.repo = repo,
                   !.cacheKey = LanguagesCacheKey(owner, repo)]
          ELSE [IdleLookup EXCEPT
                   !.pc = "fetch", !.op = op,
                   !.owner = owner, !.repo = repo,
                   !.requests = << LookupRequest(op, owner, repo) >>,
                   !.headers = << getHeaders(LookupAccept(op), authToken) >>]
    /\ issued' = issued + 1
    /\ UNCHANGED << now, cache, filters, calls >>
    /\ UNCHANGED appVars
    /\ UNCHANGED issueVars
    /\ UNCHANGED << authToken, localStorage, recentSearches, login, dbCall,
                    helperCall, sessionItem >>

\* getRepoLanguages: getFromDB settles.
LookupCacheRead(db) ==
    LET found == db = "ok" /\ HasEntry(cache, lookup.cacheKey)
        entry == IF found THEN cache[lookup.cacheKey] ELSE NoEntry
    IN  /\ lookup.pc = "getFromDB"
        /\ lookup' =
              IF db = "rejected"
              THEN [lookup EXCEPT !.pc = "done", !.failure = "cache",
                                  !.outcome = "resolved",
                                  !.value = EmptyValue(lookup.op)]
              ELSE IF found /\ now - entry.timestamp < LANGUAGES_CACHE_TTL
              THEN [lookup EXCEPT !.pc = "done", !.outcome = "resolved",
                                  !.value = entry.data]
              ELSE [lookup EXCEPT
                       !.pc = "fetch",
                       !.requests = Append(@,
                           LookupRequest(lookup.op, lookup.owner, lookup.repo)),
                       !.headers = Append(@,
                           getHeaders(LookupAccept(lookup.op), authToken))]
        /\ UNCHANGED << now, cache, filters, calls, issued >>
        /\ UNCHANGED appVars
        /\ UNCHANGED issueVars
        /\ UNCHANGED << authToken, localStorage, recentSearches, login, dbCall,
                        helperCall, sessionItem >>

LookupResponseRaise(out) ==
    /\ lookup.pc = "fetch"
    /\ out \in LookupOutcomesOf(lookup.op)
    /\ lookup' =
          IF LookupFailure(out) = "transport"
          THEN [lookup EXCEPT !.pc = "done", !.failure = "transport",
                              !.outcome = "rejected"]
          ELSE IF lookup.op = "getRepoLanguages" /\ LookupFailure(out) = ""
          THEN [lookup EXCEPT !.pc = "saveToDB", !.value = out.body]
          ELSE [lookup EXCEPT !.pc = "done", !.failure = LookupFailure(out),
                              !.outcome = "resolved",
                              !.value = LookupValue(lookup.op, out)]
    /\ UNCHANGED << now, cache, filters, calls, issued >>
    /\ UNCHANGED appVars
    /\ UNCHANGED issueVars
    /\ UNCHANGED << authToken, localStorage, recentSearches, login, dbCall,
                    helperCall, sessionItem >>

\* The endpoint answers (or the request fails).
LookupResponse(out) ==
    /\ lookup.pc = "fetch"
    /\ out \in LookupOutcomesOf(lookup.op)
    /\ lookup' =
          IF lookup.op = "getRepoLanguages" /\ LookupFailure(out) = ""
          THEN [lookup EXCEPT !.pc = "saveToDB", !.value = out.body]
          ELSE [lookup EXCEPT !.pc = "done", !.failure = LookupFailure(out),
                              !.outcome = "resolved",
                              !.value = LookupValue(lookup.op, out)]
    /\ UNCHANGED << now, cache, filters, calls, issued >>
    /\ UNCHANGED appVars
    /\ UNCHANGED issueVars
    /\ UNCHANGED << authToken, localStorage, recentSearches, login, dbCall,
                    helperCall, sessionItem >>

\* getRepoLanguages: `await saveToDB(cacheKey, data); return data` settles.
LookupSave(db) ==
    /\ lookup.pc = "saveToDB"
    /\ cache' = IF db = "ok"
                THEN PutEntry(cache, lookup.cacheKey, lookup.value, now)
                ELSE cache
    /\ lookup' =
          IF db = "rejected"
          THEN [lookup EXCEPT !.pc = "done", !.failure = "cache",
                              !.outcome = "resolved",
                              !.value = EmptyValue(lookup.op)]
          ELSE [lookup EXCEPT !.pc = "done", !.outcome = "resolved",
                              !.wrote = db = "ok"]
    /\ UNCHANGED << now, filters, calls, issued >>
    /\ UNCHANGED appVars
    /\ UNCHANGED issueVars
    /\ UNCHANGED << authToken, localStorage, recentSearches, login, dbCall,
                    helperCall, sessionItem >>

\* The moments at which the languages cache is looked at.
LookupTimePoints == {0, LANGUAGES_CACHE_TTL - 1, LANGUAGES_CACHE_TTL}

\* The lookups under a caller that awaits each before the next.
NextLookup ==
    \/ \E op \in LookupOps, target \in IssueTargets :
          InvokeLookup(op, target[1], IF op \in {"getUserProfile", "getUserTopRepos"}
                                      THEN "" ELSE target[2])
    \/ \E db \in DbOutcomes : LookupCacheRead(db)
    \/ \E out \in LookupOutcomes : LookupResponse(out)
    \/ \E db \in DbOutcomes : LookupSave(db)
    \/ \E t \in LookupTimePoints : Tick(t)

SpecLookup == InitIssues /\ [][NextLookup]_vars

(***************************************************************************)
(* services/db.ts called on its own, with the failures of the store.       *)
(***************************************************************************)
DbKeys == {"openlens_cache_v1_a", "issues_octo_hello_{}"}
DbPayloads == {"first", "second"}

\* Where the store can fail: indexedDB.open, db.transaction, the request.
DbOpenFaults == {"", "open", "transaction"}
DbRequestFaults == {"", "request"}

DbCallRunning == dbCall.pc \in {"initDB", "request"}

\* getFromDB(key) or saveToDB(key, payload), up to `await initDB()`.
InvokeDb(op, key, payload) ==
    /\ ~DbCallRunning
    /\ dbCall' = [IdleDbCall EXCEPT
                     !.pc = "initDB", !.op = op, !.key = key,
                     !.payload = payload, !.puts = dbCall.puts]
    /\ UNCHANGED << now, cache, filters, calls, issued >>
    /\ UNCHANGED appVars
    /\ UNCHANGED issueVars
    /\ UNCHANGED << authToken, localStorage, recentSearches, login, lookup,
                    helperCall, sessionItem >>

\* initDB settles.  Its rejection is caught: the call resolves to null (or to
\* nothing).  Otherwise the executor of the returned promise runs: a throw of
\* db.transaction rejects that promise, which the function has returned
\* without awaiting it, so the catch does not see it; else the entry is
\* stamped with Date.now() and the request is under way.
DbOpen(fault) ==
    /\ dbCall.pc = "initDB"
    /\ dbCall' =
          IF fault = "open"
          THEN [dbCall EXCEPT !.pc = "done", !.fault = fault,
                              !.outcome = "resolved"]
          ELSE IF fault = "transaction"
          THEN [dbCall EXCEPT !.pc = "done", !.fault = fault,
                              !.outcome = "rejected"]
          ELSE [dbCall EXCEPT !.pc = "request", !.stampedAt = now]
    /\ UNCHANGED << now, cache, filters, calls, issued >>
    /\ UNCHANGED appVars
    /\ UNCHANGED issueVars
    /\ UNCHANGED << authToken, localStorage, recentSearches, login, lookup,
                    helperCall, sessionItem >>

\* The request settles: onsuccess resolves (get: request.result || null),
\* onerror rejects the returned promise.
DbRequest(fault) ==
    LET found == HasEntry(cache, dbCall.key)
    IN  /\ dbCall.pc = "request"
        /\ IF fault = "request"
           THEN /\ dbCall' = [dbCall EXCEPT !.pc = "done", !.fault = fault,
                                            !.outcome = "rejected"]
                /\ UNCHANGED cache
           ELSE IF dbCall.op = "getFromDB"
           THEN /\ dbCall' = [dbCall EXCEPT
                                 !.pc = "done", !.outcome = "resolved",
                                 !.found = found,
                                 !.entry = IF found THEN cache[dbCall.key]
                                           ELSE NoDbEntry]
                /\ UNCHANGED cache
           ELSE /\ cache' = PutEntry(cache, dbCall.key, dbCall.payload,
                                     dbCall.stampedAt)
                /\ dbCall' = [dbCall EXCEPT
                                 !.pc = "done", !.outcome = "resolved",
                                 !.puts = (dbCall.key :>
                                              [data |-> dbCall.payload,
                                               at |-> dbCall.stampedAt]) @@ @]
        /\ UNCHANGED << now, filters, calls, issued >>
        /\ UNCHANGED appVars
        /\ UNCHANGED issueVars
        /\ UNCHANGED << authToken, localStorage, recentSearches, login, lookup,
                        helperCall, sessionItem >>

\* The moments at which the store is used.
DbTimePoints == {0, 1, 999, 1000}

\* The store under a caller that awaits each operation before the next.
NextDb ==
    \/ \E key \in DbKeys : InvokeDb("getFromDB", key, "")
    \/ \E key \in DbKeys, payload \in DbPayloads : InvokeDb("saveToDB", key, payload)
    \/ \E fault \in DbOpenFaults : DbOpen(fault)
    \/ \E fault \in DbRequestFaults : DbRequest(fault)
    \/ \E t \in DbTimePoints : Tick(t)

SpecDb == InitIssues /\ [][NextDb]_vars

(***************************************************************************)
(* saveSessionRepos and getSessionRepos over the item of REPOS_KEY.        *)
(* sessionItem tells what the item is: "absent", "empty" (the empty        *)
(* text), "array" (the JSON of the list sessionRepos), "unparsable", or    *)
(* "json" (a JSON text that is no list, such as null).                     *)
(***************************************************************************)
SessionList(n) == [i \in 1..n |-> ApiRepo(i)]

\* The lists the application saves: none, one short of, at and over 50.
SessionLists ==
    {SessionList(0), SessionList(1), SessionList(2), SessionList(49),
     SessionList(50), SessionList(51), SessionList(60), SessionList(100)}

\* saveSessionRepos(list); `fault` is "setItem" when localStorage.setItem
\* throws, which the catch swallows.
SaveSessionRepos(list, fault) ==
    /\ IF fault = ""
       THEN /\ sessionItem' = "array"
            /\ sessionRepos' = SessionSlice(list)
            /\ helperCall' = [NoHelperCall EXCEPT
                                 !.op = "saveSessionRepos", !.list = list,
                                 !.arg = list, !.savedOk = TRUE]
       ELSE /\ UNCHANGED << sessionItem, sessionRepos >>
            /\ helperCall' = [NoHelperCall EXCEPT
                                 !.op = "saveSessionRepos", !.list = list,
                                 !.arg = helperCall.arg,
                                 !.savedOk = helperCall.savedOk,
                                 !.fault = fault]
    /\ UNCHANGED << now, cache, filters, calls, issued >>
    /\ UNCHANGED << page, selectedUser, viewMode, repos, loading, error,
                    searchWarning, hasMore, lastRequestId >>
    /\ UNCHANGED issueVars
    /\ UNCHANGED << authToken, localStorage, recentSearches, login, lookup,
                    dbCall >>

\* getSessionRepos(); `fault` is "getItem" when localStorage.getItem throws.
GetSessionRepos(fault) ==
    /\ helperCall' =
          [helperCall EXCEPT
              !.op = "getSessionRepos", !.list = << >>,
              !.fault = fault, !.threw = FALSE,
              !.result = IF fault = "" /\ sessionItem = "array"
                         THEN sessionRepos ELSE << >>,
              !.resultKind = IF fault = "" /\ sessionItem = "json"
                             THEN "other" ELSE "list"]
    /\ UNCHANGED << now, cache, filters, calls, issued >>
    /\ UNCHANGED appVars
    /\ UNCHANGED issueVars
    /\ UNCHANGED << authToken, localStorage, recentSearches, login, lookup,
                    dbCall, sessionItem >>

\* Something other than saveSessionRepos changes the item: the user clears
\* the storage, or other code of the origin writes the key.
ForeignSessionWrite(kind) ==
    /\ kind \in {"absent", "empty", "unparsable", "json"}
    /\ sessionItem' = kind
    /\ sessionRepos' = << >>
    /\ helperCall' = [NoHelperCall EXCEPT !.op = "foreign"]
    /\ UNCHANGED << now, cache, filters, calls, issued >>
    /\ UNCHANGED << page, selectedUser, viewMode, repos, loading, error,
                    searchWarning, hasMore, lastRequestId >>
    /\ UNCHANGED issueVars
    /\ UNCHANGED << authToken, localStorage, recentSearches, login, lookup,
                    dbCall >>

InitSession ==
    /\ ServiceIdle
    /\ filters = DefaultFilters
    /\ HelpersIdle
    /\ sessionItem = "absent"

NextSession ==
    \/ \E list \in SessionLists, fault \in {"", "setItem"} :
          SaveSessionRepos(list, fault)
    \/ \E fault \in {"", "getItem"} : GetSessionRepos(fault)
    \/ \E kind \in {"absent", "empty", "unparsable", "json"} :
          ForeignSessionWrite(kind)

SpecSession == InitSession /\ [][NextSession]_vars

(***************************************************************************)
(* The credential: authToken, setAuthToken, validateToken, and the         *)
(* handleSubmit of the AuthModal, the only caller of the two.              *)
(***************************************************************************)
TOKEN_KEY == "openlens_auth_token"

\* localStorage.getItem(key), null being "".
GetItem(store, key) == IF key \in DOMAIN store THEN store[key] ELSE ""

\* localStorage.removeItem(key)
RemoveItem(store, key) == [k \in DOMAIN store \ {key} |-> store[k]]

\* localStorage.setItem(key, value)
SetItem(store, key, value) == (key :> value) @@ store

IsWhiteSpace(ch) == ch \in {" ", "\t", "\n"}

RECURSIVE TrimStart(_)
TrimStart(s) ==
    IF Len(s) > 0 /\ IsWhiteSpace(SubSeq(s, 1, 1))
    THEN TrimStart(SubSeq(s, 2, Len(s))) ELSE s

RECURSIVE TrimEnd(_)
TrimEnd(s) ==
    IF Len(s) > 0 /\ IsWhiteSpace(SubSeq(s, Len(s), Len(s)))
    THEN TrimEnd(SubSeq(s, 1, Len(s) - 1)) ELSE s

\* String.prototype.trim
Trim(s) == TrimEnd(TrimStart(s))

\* The credentials setAuthToken is called with.
Tokens == {"", "ghp_a", "ghp_b"}

\* What the user submits in the form.
TokenInputs == {"", "  ", "ghp_a", " ghp_b\n", "\tghp_c"}

\* What the storage holds at start-up: nothing, or an earlier credential.
StoredAtStartUp == {<< >>, TOKEN_KEY :> "ghp_old"}

SetAuthTokenKeepStored(store, token) ==
    IF token # "" THEN SetItem(store, TOKEN_KEY, token) ELSE store

\* The storage after setAuthToken(token).
SetAuthTokenStored(store, token) ==
    IF token # ""
    THEN SetItem(store, TOKEN_KEY, token)
    ELSE RemoveItem(store, TOKEN_KEY)

\* setAuthToken(token)
SetAuthToken(token) ==
    /\ authToken' = token
    /\ localStorage' = SetAuthTokenStored(localStorage, token)
    /\ helperCall' = [NoHelperCall EXCEPT !.op = "setAuthToken",
                                          !.token = token,
                                          !.heldBefore = authToken]
    /\ UNCHANGED << now, cache, filters, calls, issued >>
    /\ UNCHANGED appVars
    /\ UNCHANGED issueVars
    /\ UNCHANGED << recentSearches, login, lookup, dbCall, sessionItem >>

\* What the identity endpoint can answer to validateToken.
ValidateOutcomes ==
    {[kind |-> "networkError", status |-> 0, jsonOk |-> FALSE]}
        \cup {[kind |-> "http", status |-> st, jsonOk |-> TRUE] :
                 st \in {200, 401, 403, 500}}
        \cup {[kind |-> "http", status |-> 200, jsonOk |-> FALSE]}

\* How validateToken ends for an answer: "resolved", or the error it
\* rejects with.
ValidateResult(out) ==
    IF out.kind = "networkError" THEN "TypeError"
    ELSE IF out.status < 200 \/ out.status > 299 THEN "Invalid token"
    ELSE IF ~out.jsonOk THEN "SyntaxError"
    ELSE "resolved"

LoginRunning == login.pc \in {"validateToken", "validated"}

\* handleSubmit up to `await validateToken(token.trim())`: the request to
\* the identity endpoint carries the candidate token.
SubmitLogin(input) ==
    /\ ~LoginRunning
    /\ login' =
          IF Trim(input) = ""
          THEN [IdleLogin EXCEPT !.pc = "done", !.input = input,
                                 !.tokenAt = authToken,
                                 !.storedAt = localStorage,
                                 !.result = "ignored"]
          ELSE [IdleLogin EXCEPT
                   !.pc = "validateToken", !.input = input,
                   !.token = Trim(input),
                   !.headers = << [Accept |-> DefaultAccept,
                                   Authorization |-> "token " \o Trim(input)] >>,
                   !.tokenAt = authToken, !.storedAt = localStorage,
                   !.isLoading = TRUE]
    /\ UNCHANGED << now, cache, filters, calls, issued >>
    /\ UNCHANGED appVars
    /\ UNCHANGED issueVars
    /\ UNCHANGED << authToken, localStorage, recentSearches, lookup, dbCall,
                    helperCall, sessionItem >>

\* validateToken settles.
ValidateResponse(out) ==
    /\ login.pc = "validateToken"
    /\ login' = [login EXCEPT !.pc = "validated", !.response = out,
                              !.validation = ValidateResult(out)]
    /\ UNCHANGED << now, cache, filters, calls, issued >>
    /\ UNCHANGED appVars
    /\ UNCHANGED issueVars
    /\ UNCHANGED << authToken, localStorage, recentSearches, lookup, dbCall,
                    helperCall, sessionItem >>

LoginResumeStoreAnyway ==
    /\ login.pc = "validated"
    /\ authToken' = login.token
    /\ localStorage' = SetAuthTokenStored(localStorage, login.token)
    /\ login' =
          IF login.validation = "resolved"
          THEN [login EXCEPT !.pc = "done", !.result = "loggedIn",
                             !.isLoading = FALSE]
          ELSE [login EXCEPT
                   !.pc = "done", !.result = "error",
                   !.error = "Invalid Access Token. Please verify permissions.",
                   !.isLoading = FALSE]
    /\ UNCHANGED << now, cache, filters, calls, issued >>
    /\ UNCHANGED appVars
    /\ UNCHANGED issueVars
    /\ UNCHANGED << recentSearches, lookup, dbCall, helperCall, sessionItem >>

\* handleSubmit resumes: setAuthToken(token.trim()) and the success
\* callbacks, or the catch; then the finally.
LoginResume ==
    /\ login.pc = "validated"
    /\ IF login.validation = "resolved"
       THEN /\ authToken' = login.token
            /\ localStorage' = SetAuthTokenStored(localStorage, login.token)
            /\ login' = [login EXCEPT !.pc = "done", !.result = "loggedIn",
                                      !.isLoading = FALSE]
       ELSE /\ UNCHANGED << authToken, localStorage >>
            /\ login' =
                  [login EXCEPT
                      !.pc = "done", !.result = "error",
                      !.error = "Invalid Access Token. Please verify permissions.",
                      !.isLoading = FALSE]
    /\ UNCHANGED << now, cache, filters, calls, issued >>
    /\ UNCHANGED appVars
    /\ UNCHANGED issueVars
    /\ UNCHANGED << recentSearches, lookup, dbCall, helperCall, sessionItem >>

\* Start-up: `let authToken = localStorage.getItem(...) || ''`.
StartUp ==
    /\ ServiceIdle
    /\ localStorage \in StoredAtStartUp
    /\ authToken = GetItem(localStorage, TOKEN_KEY)
    /\ recentSearches = << >>
    /\ login = IdleLogin
    /\ lookup = IdleLookup
    /\ dbCall = IdleDbCall
    /\ helperCall = NoHelperCall
    /\ sessionItem = "absent"

InitLogin == StartUp /\ filters = DefaultFilters

\* The login form, submitted again and again.
NextLogin ==
    \/ \E input \in TokenInputs : SubmitLogin(input)
    \/ \E out \in ValidateOutcomes : ValidateResponse(out)
    \/ LoginResume

SpecLogin == InitLogin /\ [][NextLogin]_vars

\* The first call of a lookup after start-up.
InvokeLookupFirst(op, owner, repo) == issued = 0 /\ InvokeLookup(op, owner, repo)

\* The answers the requests of the credential flows get.
CredentialSearchOutcomes == {r \in SearchOutcomes : r.status \in {0, 403}}
CredentialIssueOutcomes == {r \in IssueFailureOutcomes : r.status \in {0, 404}}
CredentialLookupOutcomes ==
    {out \in LookupOutcomes : out.status \in {0, 404} \/ out.body = "data"}

\* The filters of the search of the credential flows: one that goes to the
\* search endpoint and one that goes to the trending feed.
CredentialFilters == {DefaultFilters, [DefaultFilters EXCEPT !.sort = "trending"]}

InitCredential == StartUp /\ filters \in CredentialFilters

\* The credential is set and cleared at any moment while one operation of
\* the service, the first after start-up, sends its requests.
NextCredential ==
    \/ \E token \in Tokens : SetAuthToken(token)
    \/ \E u \in Users : InvokeFirst(u)
    \/ \E c \in Slots : CacheRead(c)
    \/ \E c \in Slots, out \in TrendingOutcomes :
          \E offsets \in [1..out.n -> RandomOffsets] : TrendingResponse(c, out, offsets)
    \/ \E c \in Slots, out \in CredentialSearchOutcomes : SearchResponse(c, out)
    \/ \E target \in IssueTargets, f \in IssueFilterStates :
          InvokeIssuesFirst(target[1], target[2], f)
    \/ IssuesCacheRead
    \/ \E out \in CredentialIssueOutcomes : IssuesResponse(out)
    \/ \E op \in LookupOps, target \in IssueTargets :
          InvokeLookupFirst(op, target[1],
                            IF op \in {"getUserProfile", "getUserTopRepos"}
                            THEN "" ELSE target[2])
    \/ \E db \in DbOutcomes : LookupCacheRead(db)
    \/ \E out \in CredentialLookupOutcomes : LookupResponse(out)

SpecCredential == InitCredential /\ [][NextCredential]_vars

(***************************************************************************)
(* FilterPanel.tsx: the search history.                                    *)
(***************************************************************************)
HISTORY_KEY == "openlens_search_history"

\* JSON.parse of the JSON text of a list of strings.
RECURSIVE ParseStringArrayFrom(_, _, _, _, _)
ParseStringArrayFrom(s, i, inString, current, acc) ==
    IF i > Len(s) THEN acc
    ELSE LET ch == SubSeq(s, i, i)
         IN  IF inString
             THEN IF ch = "\\"
                  THEN ParseStringArrayFrom(s, i + 2, TRUE,
                                            current \o SubSeq(s, i + 1, i + 1), acc)
                  ELSE IF ch = "\""
                  THEN ParseStringArrayFrom(s, i + 1, FALSE, "", Append(acc, current))
                  ELSE ParseStringArrayFrom(s, i + 1, TRUE, current \o ch, acc)
             ELSE ParseStringArrayFrom(s, i + 1, ch = "\"", "", acc)

ParseStringArray(s) == ParseStringArrayFrom(s, 1, FALSE, "", << >>)

\* What the user searches for.
HistoryQueries ==
    {"", "  ", "react", " react ", "vue", "a,b", "say \"hi\"", "go", "rust"}

\* list.filter(q => q !== query)
Without(list, query) == SelectSeq(list, LAMBDA q : q # query)

NewHistoryNoLimit(list, cleanQuery) == << cleanQuery >> \o Without(list, cleanQuery)

\* [cleanQuery, ...recentSearches.filter(q => q !== cleanQuery)].slice(0, 5)
NewHistory(list, cleanQuery) ==
    LET all == << cleanQuery >> \o Without(list, cleanQuery)
    IN  SubSeq(all, 1, IF Len(all) < 5 THEN Len(all) ELSE 5)

\* The panel mounts: the effect loads the persisted history.
MountFilterPanel ==
    LET saved == GetItem(localStorage, HISTORY_KEY)
    IN  /\ recentSearches' = IF saved # "" THEN ParseStringArray(saved) ELSE << >>
        /\ helperCall' = [NoHelperCall EXCEPT
                             !.op = "mount",
                             !.searchOrder = helperCall.searchOrder]
        /\ UNCHANGED << now, cache, filters, calls, issued >>
        /\ UNCHANGED appVars
        /\ UNCHANGED issueVars
        /\ UNCHANGED << authToken, localStorage, login, lookup, dbCall,
                        sessionItem >>

\* saveToHistory(query), from triggerSearch and handleRecentClick.
SaveToHistory(query) ==
    LET cleanQuery == Trim(query)
        newHistory == NewHistory(recentSearches, cleanQuery)
    IN  /\ IF query = "" \/ cleanQuery = ""
           THEN /\ UNCHANGED << recentSearches, localStorage >>
                /\ helperCall' = [NoHelperCall EXCEPT
                                     !.op = "saveToHistory", !.query = query,
                                     !.searchOrder = helperCall.searchOrder]
           ELSE /\ recentSearches' = newHistory
                /\ localStorage' = SetItem(localStorage, HISTORY_KEY,
                                           JsonStringArray(newHistory))
                /\ helperCall' =
                      [NoHelperCall EXCEPT
                          !.op = "saveToHistory", !.query = query,
                          !.searchOrder =
                              SelectSeq(<< cleanQuery >>
                                  \o Without(helperCall.searchOrder, cleanQuery),
                                  LAMBDA q : q \in Range(newHistory))]
        /\ UNCHANGED << now, cache, filters, calls, issued >>
        /\ UNCHANGED appVars
        /\ UNCHANGED issueVars
        /\ UNCHANGED << authToken, login, lookup, dbCall, sessionItem >>

\* removeRecent(q, e), from the button of an entry shown.
RemoveRecent(q) ==
    LET newHistory == Without(recentSearches, q)
    IN  /\ q \in Range(recentSearches)
        /\ recentSearches' = newHistory
        /\ localStorage' = SetItem(localStorage, HISTORY_KEY,
                                   JsonStringArray(newHistory))
        /\ helperCall' = [NoHelperCall EXCEPT
                             !.op = "removeRecent",
                             !.searchOrder = Without(helperCall.searchOrder, q)]
        /\ UNCHANGED << now, cache, filters, calls, issued >>
        /\ UNCHANGED appVars
        /\ UNCHANGED issueVars
        /\ UNCHANGED << authToken, login, lookup, dbCall, sessionItem >>

\* clearHistory(), from the button shown while the history is not empty.
ClearHistory ==
    /\ Len(recentSearches) > 0
    /\ recentSearches' = << >>
    /\ localStorage' = RemoveItem(localStorage, HISTORY_KEY)
    /\ helperCall' = [NoHelperCall EXCEPT !.op = "clearHistory"]
    /\ UNCHANGED << now, cache, filters, calls, issued >>
    /\ UNCHANGED appVars
    /\ UNCHANGED issueVars
    /\ UNCHANGED << authToken, login, lookup, dbCall, sessionItem >>

\* The panel of a first visit, used and mounted again (a reload).
NextHistory ==
    \/ MountFilterPanel
    \/ \E query \in HistoryQueries : SaveToHistory(query)
    \/ \E q \in Range(recentSearches) : RemoveRecent(q)
    \/ ClearHistory

SpecHistory == InitSession /\ [][NextHistory]_vars

(***************************************************************************)
(* The cache keys of invocations made side by side: searches in every      *)
(* slot, for users that include one whose name is "none", next to an       *)
(* issue listing and a lookup of the languages.                            *)
(***************************************************************************)
KeyUsers == {NoUser, "alice", "none"}

KeyFilters ==
    {DefaultFilters,
     [DefaultFilters EXCEPT !.query = "react"],
     [DefaultFilters EXCEPT !.language = <<"Rust", "Go">>],
     [DefaultFilters EXCEPT !.language = <<"Rust\",\"Go">>]}

\* searchRepositories(f, p, u) is invoked in slot c.
InvokeKeyed(c, f, p, u) ==
    /\ calls[c].pc = "idle"
    /\ StartCall(c, f, p, u, 0, FALSE, << >>, "")
    /\ UNCHANGED << now, cache, filters >>
    /\ UNCHANGED appVars
    /\ UNCHANGED helperVars
    /\ UNCHANGED issueVars

NextKeys ==
    \/ \E c \in Slots, f \in KeyFilters, p \in Pages, u \in KeyUsers :
          InvokeKeyed(c, f, p, u)
    \/ \E target \in IssueTargets, f \in IssueFilterStates :
          InvokeIssues(target[1], target[2], f)
    \/ \E target \in IssueTargets :
          InvokeLookup("getRepoLanguages", target[1], target[2])

SpecKeys == InitIssues /\ [][NextKeys]_vars

(***************************************************************************)
(* searchRepositories over a store that can fail: getFromDB and saveToDB   *)
(* end in one of the three ways db.ts lets them end.                       *)
(***************************************************************************)
\* request.error of a put that fails.
StorageError == "QuotaExceededError"

\* `await getFromDB(cacheKey)` inside the try of searchRepositories: an
\* absent result and a rejection both go on as a miss.
CacheReadUnder(c, db) ==
    LET call == calls[c]
        found == db = "ok" /\ HasEntry(cache, call.cacheKey)
        entry == IF found THEN cache[call.cacheKey] ELSE NoEntry
        read == [call EXCEPT !.found = found, !.entry = entry, !.readAt = now]
    IN  /\ call.pc = "getFromDB"
        /\ calls' = [calls EXCEPT ![c] =
              IF found /\ IsFresh(entry, call.ttl, now)
              THEN [read EXCEPT !.pc = "returned", !.searchData = entry.data]
              ELSE [read EXCEPT
                       !.pc = IF UsesTrendingProxy(call.filters, call.user)
                              THEN "fetchTrending" ELSE "fetchSearch",
                       !.requests = Append(@, FirstRequest(call, now)),
                       !.headers = Append(@, FirstHeaders(call, authToken))]]
        /\ UNCHANGED << now, cache, filters, issued >>
        /\ UNCHANGED appVars
        /\ UNCHANGED helperVars
        /\ UNCHANGED issueVars

\* `await saveToDB(cacheKey, searchData); return searchData`, outside every
\* try: a rejection of saveToDB is the rejection of searchRepositories.
SaveToDBUnder(c, db) ==
    LET call == calls[c]
    IN  /\ call.pc = "saveToDB"
        /\ cache' = IF db = "ok"
                    THEN PutEntry(cache, call.cacheKey, call.searchData, now)
                    ELSE cache
        /\ calls' = [calls EXCEPT ![c] =
              IF db = "rejected"
              THEN [call EXCEPT !.pc = "raised", !.error = StorageError]
              ELSE [call EXCEPT !.pc = "returned", !.wrote = db = "ok"]]
        /\ UNCHANGED << now, filters, issued >>
        /\ UNCHANGED appVars
        /\ UNCHANGED helperVars
        /\ UNCHANGED issueVars

NextPersist ==
    \/ \E u \in Users : Invoke(u)
    \/ \E c \in Slots, db \in DbOutcomes : CacheReadUnder(c, db)
    \/ \E c \in Slots, out \in TrendingOutcomes :
          \E offsets \in [1..out.n -> RandomOffsets] : TrendingResponse(c, out, offsets)
    \/ \E c \in Slots, out \in ListingSearchOutcomes : SearchResponse(c, out)
    \/ \E c \in Slots, db \in DbOutcomes : SaveToDBUnder(c, db)

SpecPersist == InitListing /\ [][NextPersist]_vars

(***************************************************************************)
(* The two listing operations under one caller that awaits each call       *)
(* before the next and repeats its calls over time, with answers that make *)
(* them raise.                                                             *)
(***************************************************************************)
InvokeAlone(u) == ~IssueCallRunning /\ Invoke(u)

InvokeIssuesAlone(owner, repo, f) ==
    (\A c \in Slots : ~Running(c)) /\ InvokeIssues(owner, repo, f)

ErrorFlowSearchOutcomes ==
    {r \in SearchOutcomes : r.status \in {0, 403, 500} /\ r.jsonOk = (r.status # 0)}
        \cup {HttpResponse(200, "OK", EmptyResponse)}

ErrorFlowIssueOutcomes ==
    {r \in IssueFailureOutcomes : r.status \in {0, 404, 429}}
        \cup IssueListOutcomes({RawIssueList(<< FALSE, TRUE >>)})

ErrorFlowTimePoints == {0, BROWSING_CACHE_TTL}

\* The trending feed fails, or answers one item.
ErrorFlowTrendingOutcomes ==
    {out \in TrendingOutcomes : out.kind = "notOk" \/ out.n = 1}

NextErrors ==
    \/ \E u \in Users : InvokeAlone(u)
    \/ \E c \in Slots : CacheRead(c)
    \/ \E c \in Slots, out \in ErrorFlowTrendingOutcomes :
          \E offsets \in [1..out.n -> RandomOffsets] : TrendingResponse(c, out, offsets)
    \/ \E c \in Slots, out \in ErrorFlowSearchOutcomes : SearchResponse(c, out)
    \/ \E c \in Slots : SaveToDB(c)
    \/ \E f \in IssueFilterStates : InvokeIssuesAlone("octo", "hello", f)
    \/ IssuesCacheRead
    \/ \E out \in ErrorFlowIssueOutcomes : IssuesResponse(out)
    \/ IssuesSave
    \/ \E t \in ErrorFlowTimePoints : Tick(t)

SpecErrors == InitCredential /\ [][NextErrors]_vars

(***************************************************************************)
(* components/RepoDetail.tsx: the issue list of the detail view.  The view *)
(* calls getRepoIssues from its effect and from the retry button and sets  *)
(* its state when the call settles; a call is taken by how it settles.     *)
(***************************************************************************)
\* How a getRepoIssues call settles: with a list, or with an error whose
\* message may be empty.
DetailOutcomes ==
    {[kind |-> "issues", list |-> l, message |-> ""] :
        l \in {<< >>, << 1 >>, << 2, 1 >>}}
        \cup {[kind |-> "error", list |-> << >>, message |-> m] :
                 m \in {"", "GitHub Rate Limit Exceeded. Try again later."}}

DetailSorts == {"created", "comments"}
DetailDirections == {"desc", "asc"}
DetailLabels == {"bug"}

\* The lines of the effect and of the retry button that start a call.
StartIssuesCall(d) ==
    [d EXCEPT !.loadingIssues = TRUE,
              !.issuesError = "",
              !.made = @ + 1,
              !.pending = @ \cup {[id |-> d.made + 1, filters |-> d.issueFilters]},
              !.latest = NoDetailOutcome]

\* useEffect(..., [repo, issueFilters])
IssuesEffect(d) ==
    IF ~d.hasIssues
    THEN [d EXCEPT !.loadingIssues = FALSE, !.issues = << >>]
    ELSE StartIssuesCall(d)

DetailFrame ==
    /\ UNCHANGED << now, cache, filters, calls, issued, issueCall >>
    /\ UNCHANGED appVars
    /\ UNCHANGED helperVars

\* The detail view of a repository is shown.
MountRepoDetail(hasIssues) ==
    /\ ~detail.mounted
    /\ detail' = IssuesEffect([detail EXCEPT !.mounted = TRUE,
                                             !.hasIssues = hasIssues])
    /\ DetailFrame

\* A change of the issue filters: the state update and the effect it causes.
SetIssueFilters(f) ==
    /\ detail.mounted
    /\ detail.made < MaxCalls
    /\ detail' = IssuesEffect([detail EXCEPT !.issueFilters = f])
    /\ DetailFrame

ToggleLabel(labelName) ==
    LET prev == detail.issueFilters
    IN  SetIssueFilters(
            [prev EXCEPT !.labels =
                IF labelName \in Range(prev.labels)
                THEN SelectSeq(prev.labels, LAMBDA l : l # labelName)
                ELSE Append(prev.labels, labelName)])

HandleSortChange(sort) ==
    SetIssueFilters([detail.issueFilters EXCEPT !.sort = sort])

HandleDirectionChange(direction) ==
    SetIssueFilters([detail.issueFilters EXCEPT !.direction = direction])

\* The retry button, shown while issuesError is set.
RetryIssues ==
    /\ detail.mounted
    /\ detail.hasIssues
    /\ detail.issuesError # ""
    /\ detail.made < MaxCalls
    /\ detail' = StartIssuesCall(detail)
    /\ DetailFrame

\* A call settles: .then(setIssues), .catch(...), .finally(...).
SettleIssues(call, out) ==
    /\ call \in detail.pending
    /\ detail' = [detail EXCEPT
          !.issues = IF out.kind = "issues" THEN out.list ELSE << >>,
          !.issuesError = IF out.kind = "error"
                          THEN IF out.message # "" THEN out.message
                               ELSE "Failed to load issues"
                          ELSE @,
          !.loadingIssues = FALSE,
          !.pending = @ \ {call},
          !.latest = IF call.id = detail.made THEN out ELSE @]
    /\ DetailFrame

InitDetail ==
    /\ ServiceIdle
    /\ filters = DefaultFilters
    /\ HelpersIdle
    /\ sessionItem = "array"

NextDetail ==
    \/ \E hasIssues \in BOOLEAN : MountRepoDetail(hasIssues)
    \/ \E labelName \in DetailLabels : ToggleLabel(labelName)
    \/ \E sort \in DetailSorts : HandleSortChange(sort)
    \/ \E direction \in DetailDirections : HandleDirectionChange(direction)
    \/ RetryIssues
    \/ \E call \in detail.pending, out \in DetailOutcomes : SettleIssues(call, out)

SpecDetail == InitDetail /\ [][NextDetail]_vars

TypeOK ==
    /\ now \in TimePoints \cup IssueTimePoints \cup LookupTimePoints
                 \cup DbTimePoints
    /\ issued \in 0..MaxCalls
    /\ \A c \in Slots :
          calls[c].pc \in {"idle", "getFromDB", "fetchTrending", "fetchSearch",
                           "saveToDB", "returned", "raised", "settled"}

(***************************************************************************)
(* Properties.                                                             *)
(***************************************************************************)
\* A call that has got its answer from getFromDB.
Past(call) ==
    call.pc \in {"fetchTrending", "fetchSearch", "saveToDB", "returned", "raised"}

\* Age of the entry the call read, at the moment it read it.
Age(call) == call.readAt - call.entry.timestamp

ServedFromCache(call) == call.pc = "returned" /\ call.requests = << >>

Char(s, i) == SubSeq(s, i, i)

\* The space-separated clauses of a query string.
Clauses(q) ==
    {SubSeq(q, ab[1], ab[2]) :
        ab \in {xy \in (1..Len(q)) \X (1..Len(q)) :
                  /\ xy[1] <= xy[2]
                  /\ (xy[1] = 1 \/ Char(q, xy[1] - 1) = " ")
                  /\ (xy[2] = Len(q) \/ Char(q, xy[2] + 1) = " ")
                  /\ \A i \in xy[1]..xy[2] : Char(q, i) # " "}}

SearchRequestsOf(call) ==
    {call.requests[i] : i \in {j \in 1..Len(call.requests) :
                                  call.requests[j].endpoint = "search"}}

TrendingRequestsOf(call) ==
    {i \in 1..Len(call.requests) : call.requests[i].endpoint = "trending"}

\* C2: a call that finds an entry younger than the TTL returns the entry's
\* payload unchanged, sends no request and leaves the entry as it was.
C2_FreshCacheHit ==
    \A c \in Slots :
        LET call == calls[c]
        IN  (Past(call) /\ call.found /\ Age(call) < call.ttl)
                => /\ call.pc = "returned"
                   /\ call.searchData = call.entry.data
                   /\ call.requests = << >>
                   /\ ~call.wrote
                   /\ HasEntry(cache, call.cacheKey)
                   /\ cache[call.cacheKey] = call.entry

C2_Witness ==
    \E c \in Slots :
        /\ calls[c].pc = "returned" /\ calls[c].found
        /\ Age(calls[c]) > 0 /\ Age(calls[c]) < calls[c].ttl
        /\ calls[c].requests = << >>
        /\ Len(calls[c].searchData.items) > 0

\* C3: a call that finds an entry aged ttl or more sends the request a call
\* that finds nothing sends, and the entry stays as it was until that call
\* itself has fetched successfully and overwrites it.
C3_StaleIsMiss ==
    \A c \in Slots :
        LET call == calls[c]
        IN  (Past(call) /\ call.found /\ Age(call) >= call.ttl)
                => /\ Len(call.requests) >= 1
                   /\ call.requests[1] =
                        FirstRequest([call EXCEPT !.found = FALSE], call.readAt)
                   /\ HasEntry(cache, call.cacheKey)
                   /\ ~call.wrote => cache[call.cacheKey] = call.entry
                   /\ call.wrote =>
                        /\ call.pc = "returned"
                        /\ cache[call.cacheKey].data = call.searchData

C3_Witness ==
    \E c \in Slots :
        /\ calls[c].found /\ Age(calls[c]) >= calls[c].ttl
        /\ calls[c].pc = "returned" /\ calls[c].wrote
        /\ cache[calls[c].cacheKey].timestamp > calls[c].entry.timestamp
        /\ cache[calls[c].cacheKey].data # calls[c].entry.data

\* C4: an entry is served from the cache exactly when it is younger than
\* 2 minutes (non-empty query) or 15 minutes (empty query).
C4_TtlSelection ==
    \A c \in Slots :
        LET call == calls[c]
            limit == IF call.filters.query # "" THEN 2 * 60 * 1000
                     ELSE 15 * 60 * 1000
        IN  (Past(call) /\ call.found)
                => (ServedFromCache(call) <=> Age(call) < limit)

C4_Witness ==
    \E c \in Slots :
        /\ Past(calls[c]) /\ calls[c].found
        /\ calls[c].filters.query # ""
        /\ Age(calls[c]) = 2 * 60 * 1000
        /\ calls[c].requests # << >>

TrendingDefault(call) ==
    /\ call.filters.query = "" /\ call.user = NoUser
    /\ call.filters.minStars = 0 /\ call.filters.maxStars = MAX_STARS
    /\ call.filters.license = "All" /\ call.filters.sort = "trending"

\* C6 as stated: in those filter states, whatever languages are selected,
\* the first request goes to the trending feed and no request carries a
\* created:> clause.
C6_AlwaysTrendingNeverCreated ==
    \A c \in Slots :
        LET call == calls[c]
        IN  (Past(call) /\ ~call.found /\ TrendingDefault(call))
                => /\ call.requests[1].endpoint = "trending"
                   /\ \A i \in 1..Len(call.requests) :
                         ~Contains(call.requests[i].q, "created:>")

\* C6 amended: in those filter states with at most one language selected the
\* first request goes to the trending feed, and a request with a created:>
\* clause is sent only after the trending request failed or gave no item.
C6_TrendingFirst ==
    \A c \in Slots :
        LET call == calls[c]
        IN  (Past(call) /\ ~call.found /\ TrendingDefault(call)
                /\ Len(call.filters.language) <= 1)
                => /\ call.requests[1].endpoint = "trending"
                   /\ \A i \in 1..Len(call.requests) :
                         Contains(call.requests[i].q, "created:>")
                            => i > 1 /\ call.trending \in {"empty", "failed"}

C6_Witness ==
    \E c \in Slots :
        /\ TrendingDefault(calls[c]) /\ Len(calls[c].filters.language) = 1
        /\ calls[c].pc = "returned" /\ calls[c].trending = "items"
        /\ Len(calls[c].requests) = 1
        /\ calls[c].requests[1].endpoint = "trending"

C8_TrendingPopulated ==
    \A c \in Slots :
        LET call == calls[c]
            data == call.searchData
        IN  call.trending = "items"
                => /\ call.pc \in {"saveToDB", "returned"}
                   /\ call.feedSize >= 1
                   /\ SearchRequestsOf(call) = {}
                   /\ data.total_count = call.feedSize
                   /\ Len(data.items) = call.feedSize
                   /\ \A i \in 1..Len(data.items) :
                         /\ data.items[i].name = RawItem(i).name
                         /\ data.items[i].full_name =
                               RawItem(i).author \o "/" \o RawItem(i).name
                         /\ data.items[i].stargazers_count = RawItem(i).stars
                         /\ data.items[i].owner.login = RawItem(i).author
                   /\ call.pc = "returned" =>
                         /\ call.wrote
                         /\ cache[call.cacheKey].data = data

C8_Witness ==
    \E c \in Slots :
        /\ calls[c].pc = "returned" /\ calls[c].trending = "items"
        /\ calls[c].feedSize >= 2
        /\ calls[c].searchData.total_count = 2

\* C9: after a trending request that failed or gave no item, the call has sent
\* one trending request and then exactly one search request, and the answer
\* to the search request alone decides what it returns or raises.
C9_TrendingFallback ==
    \A c \in Slots :
        LET call == calls[c]
            r == call.response
        IN  call.trending \in {"empty", "failed"}
                => /\ call.pc \in {"fetchSearch", "saveToDB", "returned", "raised"}
                   /\ Len(call.requests) = 2
                   /\ call.requests[1].endpoint = "trending"
                   /\ call.requests[2].endpoint = "search"
                   /\ call.pc = "fetchSearch" => r.kind = "none"
                   /\ call.pc = "raised" =>
                         \/ r.kind = "networkError"
                         \/ r.kind = "response" /\ r.status \in {403, 429, 500}
                         \/ r.kind = "response" /\ r.status = 200 /\ ~r.jsonOk
                   /\ call.pc \in {"saveToDB", "returned"} =>
                         /\ r.kind = "response"
                         /\ \/ r.status = 200 /\ r.jsonOk /\ call.searchData = r.body
                            \/ r.status = 422 /\ call.searchData = EmptyResponse

C9_Witness ==
    \E c \in Slots :
        /\ calls[c].trending = "failed" /\ calls[c].pc = "returned"
        /\ Len(calls[c].requests) = 2
        /\ Len(calls[c].searchData.items) > 0

\* C10: the star clause of a search query: the range clause stars:min..max
\* and no stars:>= clause when maxStars is below the maximum; else stars:>=min
\* and no range clause when minStars > 0; else no clause from the star bounds.
IsRangeClause(cl) == StartsWith(cl, "stars:") /\ Contains(cl, "..")
IsLowerBoundClause(cl) == StartsWith(cl, "stars:>=")

C10_StarClause ==
    \A c \in Slots :
        \A r \in SearchRequestsOf(calls[c]) :
            LET f == calls[c].filters
                cls == Clauses(r.q)
            IN  IF f.maxStars < MAX_STARS
                THEN /\ ("stars:" \o ToString(f.minStars) \o ".."
                            \o ToString(f.maxStars)) \in cls
                     /\ \A cl \in cls : ~IsLowerBoundClause(cl)
                ELSE IF f.minStars > 0
                     THEN /\ ("stars:>=" \o ToString(f.minStars)) \in cls
                          /\ \A cl \in cls : ~IsRangeClause(cl)
                     ELSE \A cl \in cls :
                             ~IsRangeClause(cl) /\ ~IsLowerBoundClause(cl)

C10_Witness ==
    \E c \in Slots :
        \E r \in SearchRequestsOf(calls[c]) :
            /\ calls[c].filters.minStars = 100
            /\ calls[c].filters.maxStars = MAX_STARS
            /\ calls[c].filters.query = "react"
            /\ StartsWith(r.q, "react stars:>=100")

\* C1: a call that settles when its request id is no longer the most
\* recently issued one changes nothing of the visible state, and once every
\* call has settled the visible state is the outcome of the last-issued call.
AllSettled ==
    /\ lastRequestId > 0
    /\ \A c \in Slots : calls[c].pc \in {"idle", "settled"}

IsOutcomeOf(call) ==
    /\ loading = FALSE
    /\ IF call.outcome = "returned"
       THEN /\ repos = (IF call.isLoadMore
                        THEN call.reposAt \o call.searchData.items
                        ELSE call.searchData.items)
            /\ sessionRepos = SessionSlice(repos)
            /\ error = ""
            /\ searchWarning = (IF call.searchData.warning # ""
                                THEN call.searchData.warning ELSE call.warningAt)
            /\ hasMore = ~(/\ Len(call.searchData.items) < ITEMS_PER_PAGE
                           /\ call.searchData.total_count < ITEMS_PER_PAGE * call.page)
       ELSE /\ error = call.error
            /\ repos = (IF call.isLoadMore THEN call.reposAt ELSE << >>)
            /\ searchWarning = call.warningAt

C1_LastCallWins ==
    AllSettled =>
        \E c \in Slots :
            /\ calls[c].pc = "settled"
            /\ calls[c].requestId = lastRequestId
            /\ IsOutcomeOf(calls[c])

C1_OutdatedSettleStep ==
    \A c \in Slots :
        (/\ calls[c].pc \in {"returned", "raised"}
         /\ calls'[c].pc = "settled"
         /\ calls[c].requestId # lastRequestId)
            => UNCHANGED visibleVars

C1_RequestFencing == [][C1_OutdatedSettleStep]_vars /\ []C1_LastCallWins

C1_Witness ==
    /\ AllSettled
    /\ \E c, d \in Slots :
          /\ calls[c].pc = "settled" /\ calls[c].stale /\ calls[c].afterLatest
          /\ calls[c].outcome = "returned"
          /\ Len(calls[c].searchData.items) > 0
          /\ calls[d].pc = "settled" /\ calls[d].requestId = lastRequestId
          /\ calls[d].outcome = "returned"
          /\ calls[d].searchData.items # calls[c].searchData.items
          /\ repos = calls[d].searchData.items

\* C11: when languages are selected, a search query holds every selected
\* language as a double-quoted keyword, the keywords joined by one space in
\* the order of selection, and it holds no language:<name> clause.
RECURSIVE QuotedInOrder(_)
QuotedInOrder(langs) ==
    IF Len(langs) = 1 THEN "\"" \o langs[1] \o "\""
    ELSE QuotedInOrder(SubSeq(langs, 1, Len(langs) - 1))
            \o " " \o "\"" \o langs[Len(langs)] \o "\""

C11_LanguageClause ==
    \A c \in Slots :
        \A r \in SearchRequestsOf(calls[c]) :
            LET langs == calls[c].filters.language
            IN  /\ Len(langs) > 0 =>
                      /\ Contains(r.q, QuotedInOrder(langs))
                      /\ \A i \in 1..Len(langs) :
                            ("\"" \o langs[i] \o "\"") \in Clauses(r.q)
                /\ \A cl \in Clauses(r.q) : ~StartsWith(cl, "language:")

C11_Witness ==
    \E c \in Slots :
        \E r \in SearchRequestsOf(calls[c]) :
            /\ calls[c].filters.language = <<"Rust", "Go">>
            /\ calls[c].filters.query = "react"
            /\ StartsWith(r.q, "react \"Rust\" \"Go\"")

\* C12: after a 422 answer to the search request the call does not raise and
\* its result is {total_count: 0, incomplete_results: false, items: []}, for
\* every filter state, page and user scope.
C12_Search422Empty ==
    \A c \in Slots :
        LET call == calls[c]
        IN  (call.response.kind = "response" /\ call.response.status = 422)
                => /\ call.pc \in {"saveToDB", "returned"}
                   /\ call.error = ""
                   /\ call.searchData.total_count = 0
                   /\ call.searchData.incomplete_results = FALSE
                   /\ call.searchData.items = << >>

C12_Witness ==
    \E c \in Slots :
        /\ calls[c].response.status = 422 /\ calls[c].pc = "returned"
        /\ calls[c].page = 2 /\ calls[c].filters.query = "react"
        /\ calls[c].filters.language = <<"Rust", "Go">>
        /\ calls[c].searchData.items = << >>

\* C13: a non-success answer to the search request with a status other than
\* 403, 429 and 422 makes the call raise an error whose message includes the
\* status text of the answer.
UpstreamFailure(r) ==
    /\ r.kind = "response"
    /\ ~(r.status >= 200 /\ r.status <= 299)
    /\ r.status \notin {403, 429, 422}

C13_UpstreamErrorStatusText ==
    \A c \in Slots :
        LET call == calls[c]
        IN  UpstreamFailure(call.response)
                => /\ call.pc = "raised"
                   /\ call.response.statusText # ""
                   /\ Contains(call.error, call.response.statusText)

C13_Witness ==
    \E c \in Slots :
        /\ calls[c].pc = "raised"
        /\ calls[c].response.status = 500 /\ ~calls[c].response.jsonOk
        /\ Contains(calls[c].error, "Internal Server Error")

\* C14: for a search answer with status 500 and status text T the call
\* rejects with a message that contains "GitHub API Error: " followed
\* immediately by T.
C14_ErrorPrefixThenStatusText ==
    \A c \in Slots :
        LET call == calls[c]
        IN  (call.pc = "raised" /\ call.response.kind = "response"
                /\ call.response.status = 500)
                => Contains(call.error,
                            "GitHub API Error: " \o call.response.statusText)

\* The generic texts of the two operations, and the rate-limit errors.
SearchGenericMessage(r) ==
    "GitHub API Error: " \o ToString(r.status) \o " " \o r.statusText
IssuesGenericMessage(r) ==
    "Error " \o ToString(r.status) \o ": " \o r.statusText
SearchRateLimitError == "API Rate limit exceeded. Please try again in a moment."
IssuesRateLimitError == "GitHub Rate Limit Exceeded. Try again later."

HasUpstreamMessage(r) == r.jsonOk /\ r.message # ""

\* The message getRepoIssues works with: the body's, else the generic one.
IssuesMessageOf(r) ==
    IF HasUpstreamMessage(r) THEN r.message ELSE IssuesGenericMessage(r)

MentionsRateLimit(text) == Contains(ToLowerCase(text), "rate limit")

\* A non-success answer to getRepoIssues that no other entry of the taxonomy
\* takes: not a 404, not a 429, not a 403 that mentions the rate limit.
IssuesUnmappedFailure(r) ==
    /\ r.kind = "response"
    /\ ~(r.status >= 200 /\ r.status <= 299)
    /\ r.status \notin {404, 429}
    /\ ~(r.status = 403 /\ MentionsRateLimit(IssuesMessageOf(r)))

C16_Every403And429RateLimited ==
    /\ \A c \in Slots :
          (calls[c].response.kind = "response"
              /\ calls[c].response.status \in {403, 429})
              => /\ calls[c].pc = "raised"
                 /\ calls[c].error = SearchRateLimitError
    /\ (issueCall.response.kind = "response"
          /\ issueCall.response.status \in {403, 429})
          => /\ issueCall.pc = "raised"
             /\ issueCall.error = IssuesRateLimitError

\* C16 amended: searchRepositories raises its rate-limit error for every 403
\* and 429; getRepoIssues raises its rate-limit error for every 429 and for a
\* 403 whose message mentions "rate limit" in any letter case, and for any
\* other 403 it raises that message.
C16_RateLimitMapping ==
    /\ \A c \in Slots :
          (calls[c].response.kind = "response"
              /\ calls[c].response.status \in {403, 429})
              => /\ calls[c].pc = "raised"
                 /\ calls[c].error = SearchRateLimitError
    /\ LET r == issueCall.response
       IN  (r.kind = "response" /\ r.status \in {403, 429})
              => /\ issueCall.pc = "raised"
                 /\ issueCall.error =
                       (IF r.status = 429 \/ MentionsRateLimit(IssuesMessageOf(r))
                        THEN IssuesRateLimitError
                        ELSE IssuesMessageOf(r))

C16_Witness ==
    /\ issueCall.pc = "raised"
    /\ issueCall.response.status = 403
    /\ issueCall.error = "Resource not accessible by integration"

\* The text of a 200 answer names the rate limit: the warning of a search
\* body; the message of an issues body or the title of one of its entries.
SearchBodyMentionsRateLimit(r) ==
    r.kind = "response" /\ r.status = 200 /\ r.jsonOk
        /\ MentionsRateLimit(r.body.warning)

IssuesBodyMentionsRateLimit(r) ==
    r.kind = "response" /\ r.status = 200 /\ r.jsonOk
        /\ \/ MentionsRateLimit(r.message)
           \/ \E i \in 1..Len(r.list) : MentionsRateLimit(r.list[i].title)

\* C17 as stated: a 200 answer whose body text names the rate limit makes the
\* call raise; it is not returned as a result and not written to the cache.
C17_RateLimitedOn200 ==
    /\ \A c \in Slots :
          SearchBodyMentionsRateLimit(calls[c].response)
              => /\ calls[c].pc = "raised"
                 /\ ~calls[c].wrote
    /\ IssuesBodyMentionsRateLimit(issueCall.response)
          => /\ issueCall.pc = "raised"
             /\ ~issueCall.wrote

\* C17 amended: a 403 answer whose body message names the rate limit makes
\* both operations raise their rate-limit error, with nothing returned and
\* nothing written to the cache; a 200 answer with a parsable body never
\* raises, whatever its text says.
C17_RateLimitedOn403Not200 ==
    /\ \A c \in Slots :
          LET call == calls[c]
              r == call.response
          IN  /\ (r.kind = "response" /\ r.status = 403
                     /\ HasUpstreamMessage(r) /\ MentionsRateLimit(r.message))
                    => /\ call.pc = "raised"
                       /\ call.error = SearchRateLimitError
                       /\ ~call.wrote
                       /\ ~HasEntry(cache, call.cacheKey)
              /\ (r.kind = "response" /\ r.status = 200 /\ r.jsonOk)
                    => /\ call.pc \in {"saveToDB", "returned"}
                       /\ call.error = ""
                       /\ call.searchData = r.body
    /\ LET r == issueCall.response
       IN  /\ (r.kind = "response" /\ r.status = 403
                  /\ HasUpstreamMessage(r) /\ MentionsRateLimit(r.message))
                 => /\ issueCall.pc = "raised"
                    /\ issueCall.error = IssuesRateLimitError
                    /\ ~issueCall.wrote
                    /\ ~HasEntry(cache, issueCall.cacheKey)
           /\ (r.kind = "response" /\ r.status = 200 /\ r.jsonOk)
                 => /\ issueCall.pc \in {"saveToDB", "returned"}
                    /\ issueCall.error = ""

C17_Witness ==
    /\ issueCall.pc = "raised"
    /\ issueCall.response.status = 403
    /\ issueCall.response.message = "API Rate Limit exceeded for 10.0.0.1."
    /\ issueCall.error = IssuesRateLimitError

\* The positions of a raw list whose entry carries no pull-request marker.
IssuePositions(list) == {i \in 1..Len(list) : list[i].pull_request = ""}

\* C18: for a list answered by the issues endpoint, getRepoIssues returns and
\* caches exactly the entries without pull-request marker, in their order.
C18_PullRequestsDropped ==
    LET call == issueCall
        raw == call.response.list
        kept == IssuePositions(raw)
    IN  (call.response.kind = "response" /\ call.response.isArray)
            => /\ call.pc \in {"saveToDB", "returned"}
               /\ Len(call.issues) = Cardinality(kept)
               /\ \A i \in kept :
                     call.issues[Cardinality({j \in kept : j <= i})] = raw[i]
               /\ call.pc = "returned"
                     => /\ call.wrote
                        /\ HasEntry(cache, call.cacheKey)
                        /\ cache[call.cacheKey].data = call.issues

C18_Witness ==
    /\ issueCall.pc = "returned"
    /\ issueCall.response.list = FiveAndThree
    /\ Len(issueCall.issues) = 5
    /\ issueCall.wrote

\* C19: every non-success status and every transport failure makes
\* getRepoIssues raise (a 404 with "Issues are disabled or not found."); no
\* status, 422 included, gives an empty list.
C19_IssuesRaiseOnFailure ==
    LET call == issueCall
        r == call.response
    IN  (\/ r.kind = "networkError"
         \/ r.kind = "response" /\ ~(r.status >= 200 /\ r.status <= 299))
            => /\ call.pc = "raised"
               /\ call.error # ""
               /\ r.status = 404 => call.error = "Issues are disabled or not found."
               /\ ~call.wrote

C19_Witness ==
    /\ issueCall.pc = "raised"
    /\ issueCall.response.status = 422
    /\ issueCall.error # ""

\* The serialized issue filters, written out.
SerializedIssueFilters(f) ==
    IF f = DefaultIssueFilters
    THEN "{\"sort\":\"created\",\"direction\":\"desc\",\"labels\":[]}"
    ELSE "{\"sort\":\"comments\",\"direction\":\"asc\",\"labels\":[\"bug\",\"help wanted\"]}"

\* C20: the entry of a listing is keyed by owner, repo and the serialized
\* filters; an entry younger than 5 minutes is returned with no request; an
\* entry aged 5 minutes or more leads to exactly one issues request, and the
\* filtered list that request gives overwrites the entry.
C20_IssuesCache ==
    LET call == issueCall
        fiveMinutes == 5 * 60 * 1000
    IN  call.pc \in {"fetchIssues", "saveToDB", "returned", "raised"}
            => /\ call.cacheKey = "issues_" \o call.owner \o "_" \o call.repo
                                      \o "_" \o SerializedIssueFilters(call.filters)
               /\ (call.found /\ Age(call) < fiveMinutes)
                     => /\ call.pc = "returned"
                        /\ call.requests = << >>
                        /\ call.issues = call.entry.data
                        /\ ~call.wrote
                        /\ cache[call.cacheKey] = call.entry
               /\ (call.found /\ Age(call) >= fiveMinutes)
                     => /\ Len(call.requests) = 1
                        /\ call.requests[1].endpoint = "issues"
                        /\ (call.pc = "returned" /\ call.response.isArray)
                              => /\ call.wrote
                                 /\ cache[call.cacheKey].data =
                                       WithoutPullRequests(call.response.list)
                                 /\ cache[call.cacheKey].timestamp >= call.readAt
               /\ \A key \in DOMAIN cache : cache[key].key = key

C20_Witness ==
    /\ issueCall.pc = "returned" /\ issueCall.found
    /\ Age(issueCall) = 5 * 60 * 1000
    /\ issueCall.wrote
    /\ Len(issueCall.requests) = 1
    /\ cache[issueCall.cacheKey].data # issueCall.entry.data
    /\ Cardinality(DOMAIN cache) >= 2

(***************************************************************************)
(* C21: the enrichment lookups never raise.  Every lookup that has ended   *)
(* has resolved, and when a failure reached it (a non-success status, a    *)
(* transport failure, an unreadable body, a rejected cache operation) it   *)
(* resolved to its empty value: null for the readme and the profile, {}    *)
(* for the languages, [] for the labels and the top repositories.          *)
(***************************************************************************)
C21_LookupsNeverRaise ==
    /\ lookup.pc \in {"idle", "getFromDB", "fetch", "saveToDB", "done"}
    /\ lookup.pc = "done" =>
          /\ lookup.outcome = "resolved"
          /\ lookup.failure # "" =>
                lookup.value = EmptyValue(lookup.op)
          /\ lookup.failure \in {"", "status", "transport", "body", "cache"}

\* A lookup of the labels has ended after a transport failure, and a lookup
\* of the languages after its cache write was rejected.
C21_Witness ==
    /\ lookup.pc = "done"
    /\ \/ lookup.op = "getRepoLabels" /\ lookup.failure = "transport"
          /\ lookup.value = "[]"
       \/ lookup.op = "getRepoLanguages" /\ lookup.failure = "cache"
          /\ Len(lookup.requests) = 1 /\ lookup.value = "{}"

(***************************************************************************)
(* C22: the durable cache operations never fail past their boundary.  For  *)
(* every storage failure (opening the database, creating the transaction,  *)
(* the get or put request erroring) getFromDB resolves to absent and       *)
(* saveToDB resolves having written nothing; neither rejects.              *)
(***************************************************************************)
C22_DbNeverRejects ==
    dbCall.pc = "done" =>
        /\ dbCall.outcome = "resolved"
        /\ dbCall.fault # "" =>
              /\ ~dbCall.found
              /\ dbCall.entry = NoDbEntry

(***************************************************************************)
(* C23: the cache round trip.  A getFromDB(key) that goes through returns  *)
(* the entry of the last saveToDB to that key that went through: its data  *)
(* is that payload and its timestamp the time of that write; a key never   *)
(* written is absent.  A later put replaces payload and timestamp          *)
(* together, and the store holds nothing else.                             *)
(***************************************************************************)
C23_CacheRoundTrip ==
    /\ DOMAIN cache = DOMAIN dbCall.puts
    /\ \A key \in DOMAIN cache :
          cache[key] = [key |-> key, data |-> dbCall.puts[key].data,
                        timestamp |-> dbCall.puts[key].at]
    /\ (dbCall.pc = "done" /\ dbCall.op = "getFromDB" /\ dbCall.fault = "") =>
          /\ dbCall.found <=> dbCall.key \in DOMAIN dbCall.puts
          /\ dbCall.found =>
                /\ dbCall.entry.data = dbCall.puts[dbCall.key].data
                /\ dbCall.entry.timestamp = dbCall.puts[dbCall.key].at
                /\ dbCall.entry.timestamp <= now

\* A key written twice, with different payloads at different times, is read
\* back as its second write.
C23_Witness ==
    /\ dbCall.pc = "done" /\ dbCall.op = "getFromDB" /\ dbCall.fault = ""
    /\ dbCall.found
    /\ dbCall.entry.data = "second"
    /\ dbCall.entry.timestamp = 999
    /\ now = 1000

\* The first min(50, Len(list)) entries of list, in order.
IsFirstFifty(stored, list) ==
    /\ Len(stored) = (IF Len(list) < 50 THEN Len(list) ELSE 50)
    /\ \A i \in 1..Len(stored) : stored[i] = list[i]

C26_ValidateThenStore ==
    /\ login.pc \in {"validateToken", "validated"} =>
          /\ authToken = login.tokenAt
          /\ localStorage = login.storedAt
    /\ (login.pc \in {"validated", "done"} /\ login.response.kind = "http"
            /\ login.response.status \notin 200..299) =>
          login.validation = "Invalid token"
    /\ login.pc = "done" =>
          /\ login.result = "loggedIn" <=> login.validation = "resolved"
          /\ login.result = "loggedIn" =>
                /\ authToken = login.token
                /\ GetItem(localStorage, TOKEN_KEY) = login.token
          /\ login.result # "loggedIn" =>
                /\ authToken = login.tokenAt
                /\ localStorage = login.storedAt

\* A validation has failed with a 401 while an earlier credential was held,
\* and that credential is still the one held and persisted.
C26_Witness ==
    /\ login.pc = "done"
    /\ login.response.status = 401
    /\ login.result = "error"
    /\ login.tokenAt = "ghp_a"
    /\ login.token = "ghp_b"
    /\ authToken = "ghp_a"
    /\ GetItem(localStorage, TOKEN_KEY) = "ghp_a"

\* The Authorization header the credential `token` asks for ("" is none).
ExpectedAuthorization(token) == IF token = "" THEN "" ELSE "token " \o token

\* The request the step sends, as << request, headers >>, if it sends one
\* (the lists of the requests only ever grow by one at their end).
SentByStep(before, after) ==
    IF Len(after.requests) = Len(before.requests) + 1
    THEN {<< after.requests[Len(after.requests)],
             after.headers[Len(after.headers)] >>}
    ELSE {}

SearchRank(q) ==
    CHOOSE i \in 1..Len(helperCall.searchOrder) : helperCall.searchOrder[i] = q

Ended(call) == call.pc \in {"returned", "raised"}

(***************************************************************************)
(* C29: no retry.  One invocation of searchRepositories sends at most one  *)
(* request to the trending feed and at most one to the search endpoint,    *)
(* the feed first; a request that failed is never sent again; an           *)
(* invocation that misses the cache off the trending path has made         *)
(* exactly one request, to the search endpoint, when it ends.  One         *)
(* invocation of getRepoIssues sends at most one request.                  *)
(***************************************************************************)
C29_NoRetry ==
    /\ \A c \in Slots :
          LET call == calls[c]
          IN  /\ Cardinality(TrendingRequestsOf(call)) <= 1
              /\ Cardinality({i \in 1..Len(call.requests) :
                                 call.requests[i].endpoint = "search"}) <= 1
              /\ TrendingRequestsOf(call) \subseteq {1}
              /\ Len(call.requests) <= 2
              /\ call.pc = "raised" =>
                    /\ call.response.kind # "none"
                    /\ call.requests[Len(call.requests)].endpoint = "search"
              /\ (Ended(call) /\ ~call.found
                      /\ ~UsesTrendingProxy(call.filters, call.user)) =>
                    /\ Len(call.requests) = 1
                    /\ call.requests[1].endpoint = "search"
    /\ Len(issueCall.requests) <= 1
    /\ issueCall.pc \in {"fetchIssues", "saveToDB", "raised"} =>
          Len(issueCall.requests) = 1

\* A search off the trending path missed the cache, its only request failed
\* in transport, and the invocation raised without another request.
C29_Witness ==
    /\ calls[1].pc = "raised"
    /\ ~calls[1].found
    /\ ~UsesTrendingProxy(calls[1].filters, calls[1].user)
    /\ calls[1].response.kind = "networkError"
    /\ Len(calls[1].requests) = 1

(***************************************************************************)
(* C30: the search cache key is a function of (filters, page, user scope)  *)
(* and injective on them: two invocations have the same key only if their  *)
(* filters, page and user scope are all equal, no user scope being         *)
(* distinct from every user name; and it is never the key of an issue      *)
(* listing or of a lookup of the languages.                                *)
(***************************************************************************)
C30_SearchKeyInjective ==
    \A c, d \in Slots :
        (calls[c].pc # "idle" /\ calls[d].pc # "idle") =>
            /\ calls[c].cacheKey # issueCall.cacheKey
            /\ calls[c].cacheKey # lookup.cacheKey
            /\ (calls[c].filters = calls[d].filters
                   /\ calls[c].page = calls[d].page
                   /\ calls[c].user = calls[d].user) =>
                  calls[c].cacheKey = calls[d].cacheKey
            /\ calls[c].cacheKey = calls[d].cacheKey =>
                  /\ calls[c].filters = calls[d].filters
                  /\ calls[c].page = calls[d].page
                  /\ calls[c].user = calls[d].user

(***************************************************************************)
(* C31: in every normalized trending response any two distinct items have  *)
(* distinct ids, each id being the list position plus 9990000 plus a       *)
(* random offset in 0..99999.                                              *)
(***************************************************************************)
C31_TrendingIdsDistinct ==
    \A c \in Slots :
        calls[c].trending = "items" =>
            LET items == calls[c].searchData.items
            IN  /\ \A i \in 1..Len(items) :
                      /\ items[i].id >= (i - 1) + 9990000
                      /\ items[i].id <= (i - 1) + 9990000 + 99999
                /\ \A i, j \in 1..Len(items) :
                      i # j => items[i].id # items[j].id

(***************************************************************************)
(* C32: the clauses of a search query appear in the order user scope,      *)
(* recency, free-text query or popularity floor, language keywords,        *)
(* license, stars; the license clause is present exactly when license is   *)
(* not "All" and the user-scope clause exactly when a user scope is given. *)
(***************************************************************************)
ClauseStarts(q) ==
    {i \in 1..Len(q) : Char(q, i) # " " /\ (i = 1 \/ Char(q, i - 1) = " ")}

ClauseAt(q, i) ==
    LET ends == {e \in i..Len(q) : e = Len(q) \/ Char(q, e + 1) = " "}
    IN  SubSeq(q, i, CHOOSE e \in ends : \A d \in ends : e <= d)

\* The place of a clause in the order the claim states (0: none of them).
ClauseRank(cl, f) ==
    IF StartsWith(cl, "user:") THEN 1
    ELSE IF StartsWith(cl, "created:>") THEN 2
    ELSE IF cl = "stars:>1000" \/ (f.query # "" /\ cl = f.query) THEN 3
    ELSE IF StartsWith(cl, "\"") THEN 4
    ELSE IF StartsWith(cl, "license:") THEN 5
    ELSE IF IsRangeClause(cl) \/ IsLowerBoundClause(cl) THEN 6
    ELSE 0

C32_ClauseOrder ==
    \A c \in Slots :
        \A r \in SearchRequestsOf(calls[c]) :
            LET f == calls[c].filters
                u == calls[c].user
                starts == ClauseStarts(r.q)
                rank(i) == ClauseRank(ClauseAt(r.q, i), f)
            IN  /\ \A i \in starts : rank(i) > 0
                /\ \A i, j \in starts :
                      i < j => \/ rank(i) < rank(j)
                               \/ rank(i) = 4 /\ rank(j) = 4
                /\ (f.license # "All") <=>
                      (("license:" \o f.license) \in Clauses(r.q))
                /\ (f.license = "All") =>
                      \A cl \in Clauses(r.q) : ~StartsWith(cl, "license:")
                /\ (u # NoUser) <=> (("user:" \o u) \in Clauses(r.q))
                /\ (u = NoUser) =>
                      \A cl \in Clauses(r.q) : ~StartsWith(cl, "user:")

\* A query with a user scope, a free text, two languages, a license and a
\* star range has been sent.
C32_Witness ==
    \E c \in Slots :
        \E r \in SearchRequestsOf(calls[c]) :
            r.q = "user:alice react \"Rust\" \"Go\" license:mit stars:100..500"

(***************************************************************************)
(* C33: a search query holds the clause stars:>1000 exactly when there is  *)
(* no free-text query and no other narrowing is active (no user scope, no  *)
(* star-range narrowing, no selected language, no license other than       *)
(* "All", sort not trending); with a free-text query the raw query is in   *)
(* the query string and the floor is absent.                               *)
(***************************************************************************)
NoNarrowing(f, u) ==
    /\ u = NoUser
    /\ f.minStars = 0
    /\ f.maxStars = MAX_STARS
    /\ Len(f.language) = 0
    /\ f.license = "All"
    /\ f.sort # "trending"

C33_PopularityFloor ==
    \A c \in Slots :
        \A r \in SearchRequestsOf(calls[c]) :
            LET f == calls[c].filters
            IN  /\ ("stars:>1000" \in Clauses(r.q)) <=>
                      (f.query = "" /\ NoNarrowing(f, calls[c].user))
                /\ f.query # "" => f.query \in Clauses(r.q)

(***************************************************************************)
(* C34: a search request sent while sort is "trending" has the sort        *)
(* parameter "stars" and holds a created:> clause exactly when the query   *)
(* is empty and there is no user scope; for every other sort mode the sort *)
(* parameter is filters.sort and there is no recency clause.               *)
(***************************************************************************)
HasRecencyClause(q) == \E cl \in Clauses(q) : StartsWith(cl, "created:>")

C34_TrendingEmulation ==
    \A c \in Slots :
        \A r \in SearchRequestsOf(calls[c]) :
            LET f == calls[c].filters
            IN  IF f.sort = "trending"
                THEN /\ r.sort = "stars"
                     /\ HasRecencyClause(r.q) <=>
                           (f.query = "" /\ calls[c].user = NoUser)
                ELSE /\ r.sort = f.sort
                     /\ ~HasRecencyClause(r.q)

\* The case of the repository's test: trending with a star filter goes to
\* the search endpoint, sorted by stars and with the recency clause.
C34_Witness ==
    \E c \in Slots :
        \E r \in SearchRequestsOf(calls[c]) :
            /\ calls[c].filters.sort = "trending"
            /\ calls[c].filters.minStars = 100
            /\ calls[c].filters.query = ""
            /\ calls[c].user = NoUser
            /\ calls[c].requests = << r >>
            /\ r.sort = "stars"
            /\ HasRecencyClause(r.q)

(***************************************************************************)
(* C35: no step removes an entry of the durable cache, and the entry of a  *)
(* key is created or changed only by the saveToDB of an invocation with    *)
(* that key whose fetch gave a result, and then it is replaced whole by    *)
(* that result stamped with the current time.                              *)
(***************************************************************************)
\* The invocation has fetched and its fetch gave a result (a 422 of the
\* search endpoint counts as the empty result).
FetchGaveResult(call) ==
    /\ call.requests # << >>
    /\ \/ call.trending = "items"
       \/ /\ call.response.kind = "response"
          /\ \/ ResponseOk(call.response) /\ call.response.jsonOk
             \/ call.response.status = 422

OverwrittenBy(call, k) ==
    /\ call.pc = "saveToDB"
    /\ call.cacheKey = k
    /\ FetchGaveResult(call)
    /\ cache'[k] = [key |-> k, data |-> call.searchData, timestamp |-> now]

C35_EntriesNeverRemoved ==
    [][/\ DOMAIN cache \subseteq DOMAIN cache'
       /\ \A k \in DOMAIN cache' :
             (k \notin DOMAIN cache \/ cache'[k] # cache[k]) =>
                 \E c \in Slots :
                     /\ OverwrittenBy(calls[c], k)
                     /\ calls'[c].pc = "returned"]_vars

\* An invocation found a stale entry and overwrote it while the entry of
\* another key, old enough to have expired, is still in the store.
C35_Witness ==
    \E c \in Slots :
        /\ calls[c].pc = "returned"
        /\ calls[c].found
        /\ calls[c].wrote
        /\ cache[calls[c].cacheKey].timestamp > calls[c].entry.timestamp
        /\ \E k \in DOMAIN cache :
              /\ k # calls[c].cacheKey
              /\ now - cache[k].timestamp >= BROWSING_CACHE_TTL

(***************************************************************************)
(* C36: when the fetch of searchRepositories gave a result, the invocation *)
(* returns that result and does not raise, whether or not the write to     *)
(* the durable cache went through.                                         *)
(***************************************************************************)
C36_PersistFailureKeepsResult ==
    \A c \in Slots :
        (FetchGaveResult(calls[c]) /\ calls[c].pc \in {"returned", "raised"}) =>
            /\ calls[c].pc = "returned"
            /\ calls[c].error = ""
            /\ calls[c].searchData =
                  IF calls[c].trending = "items"
                  THEN calls[c].searchData
                  ELSE SearchDataOf(calls[c].response)

(***************************************************************************)
(* C37: when searchRepositories or getRepoIssues raises, the durable cache *)
(* is as it was before the call: the step that raises writes nothing, the  *)
(* entry of the call's key is the one the call read (or still absent),     *)
(* the store changes only in the save of a call that returns, and a call   *)
(* repeated with the same inputs finds no fresh entry, so that it goes to  *)
(* the network again.                                                      *)
(***************************************************************************)
AsRead(store, call) ==
    IF call.found
    THEN call.cacheKey \in DOMAIN store /\ store[call.cacheKey] = call.entry
    ELSE call.cacheKey \notin DOMAIN store

NothingFresh(store, key, ttl) ==
    key \in DOMAIN store =>
        \A t \in ErrorFlowTimePoints :
            t >= now => t - store[key].timestamp >= ttl

SearchRaises(c) == calls[c].pc # "raised" /\ calls'[c].pc = "raised"

IssuesRaises == issueCall.pc # "raised" /\ issueCall'.pc = "raised"

SearchRepeated(c) ==
    /\ calls[c].pc = "raised"
    /\ calls'[c].pc = "getFromDB"
    /\ calls'[c].filters = calls[c].filters
    /\ calls'[c].page = calls[c].page
    /\ calls'[c].user = calls[c].user

IssuesRepeated ==
    /\ issueCall.pc = "raised"
    /\ issueCall'.pc = "getFromDB"
    /\ issueCall'.owner = issueCall.owner
    /\ issueCall'.repo = issueCall.repo
    /\ issueCall'.filters = issueCall.filters

C37_UnchangedOnError ==
    [][/\ \A c \in Slots :
             SearchRaises(c) =>
                 /\ cache' = cache
                 /\ ~calls'[c].wrote
                 /\ AsRead(cache', calls'[c])
       /\ IssuesRaises =>
             /\ cache' = cache
             /\ ~issueCall'.wrote
             /\ AsRead(cache', issueCall')
       /\ cache' # cache =>
             \/ \E c \in Slots :
                   calls[c].pc = "saveToDB" /\ calls'[c].pc = "returned"
             \/ issueCall.pc = "saveToDB" /\ issueCall'.pc = "returned"
       /\ \A c \in Slots :
             SearchRepeated(c) =>
                 /\ calls'[c].cacheKey = calls[c].cacheKey
                 /\ AsRead(cache, calls[c])
                 /\ NothingFresh(cache, calls[c].cacheKey,
                                 IF calls[c].filters.query # ""
                                 THEN SEARCH_CACHE_TTL ELSE BROWSING_CACHE_TTL)
       /\ IssuesRepeated =>
             /\ issueCall'.cacheKey = issueCall.cacheKey
             /\ AsRead(cache, issueCall)
             /\ NothingFresh(cache, issueCall.cacheKey, ISSUES_CACHE_TTL)]_vars

\* A search that found a stale entry has raised and the entry is the one it
\* read; an issue listing has raised for a key that has no entry, while the
\* store holds an entry of another call.
C37_Witness ==
    /\ calls[1].pc = "raised"
    /\ calls[1].found
    /\ cache[calls[1].cacheKey] = calls[1].entry
    /\ issueCall.pc = "raised"
    /\ issueCall.cacheKey \notin DOMAIN cache

(***************************************************************************)
(* C38: a cache hit writes nothing: the step in which an invocation reads  *)
(* the cache leaves the store as it is; an entry carries the time of its   *)
(* write; and an invocation that reads an entry written at t is served     *)
(* from it exactly when it reads before t + ttl, and sends a request when  *)
(* it reads at t + ttl or later, whatever was read in between.             *)
(***************************************************************************)
ReadStep(c) == calls[c].pc = "getFromDB" /\ calls'[c].pc # "getFromDB"

WriteStep(c) == calls[c].pc = "saveToDB" /\ calls'[c].pc # "saveToDB"

CategoryTtl(f) == IF f.query # "" THEN SEARCH_CACHE_TTL ELSE BROWSING_CACHE_TTL

C38_HitsDoNotExtend ==
    [][\A c \in Slots :
          LET k == calls[c].cacheKey
              ttl == CategoryTtl(calls[c].filters)
          IN  /\ ReadStep(c) =>
                    /\ cache' = cache
                    /\ k \in DOMAIN cache =>
                          IF now < cache[k].timestamp + ttl
                          THEN /\ calls'[c].pc = "returned"
                               /\ calls'[c].requests = << >>
                               /\ calls'[c].searchData = cache[k].data
                          ELSE /\ calls'[c].pc \in {"fetchTrending", "fetchSearch"}
                               /\ Len(calls'[c].requests) = 1
              /\ WriteStep(c) =>
                    /\ k \in DOMAIN cache'
                    /\ cache'[k].timestamp = now]_vars

\* The third invocation of the caller has read an entry with a free-text
\* query that was written at 0, at the moment the entry reached its TTL,
\* and has sent a request.
C38_Witness ==
    /\ issued = 3
    /\ calls[1].filters.query # ""
    /\ calls[1].found
    /\ calls[1].entry.timestamp = 0
    /\ calls[1].readAt = SEARCH_CACHE_TTL
    /\ Len(calls[1].requests) = 1

(***************************************************************************)
(* C39: in the detail view, once the getRepoIssues call made for the most  *)
(* recently selected filters has settled, the issue list and the issue     *)
(* error shown are the outcome of that call, in whatever order the calls   *)
(* settle.                                                                 *)
(***************************************************************************)
LatestIssuesCallSettled ==
    /\ detail.made > 0
    /\ \A call \in detail.pending : call.id # detail.made

C39_LatestIssuesShown ==
    LatestIssuesCallSettled =>
        IF detail.latest.kind = "issues"
        THEN /\ detail.issues = detail.latest.list
             /\ detail.issuesError = ""
        ELSE /\ detail.issues = << >>
             /\ detail.issuesError =
                   IF detail.latest.message # "" THEN detail.latest.message
                   ELSE "Failed to load issues"

(***************************************************************************)
(* C40: loading is false in every state in which the request issued last   *)
(* has settled; a request that settles when it is outdated does not change *)
(* the flag; the flag turns true only in a step that issues a request;     *)
(* and when every request settles, loading is followed by not loading.     *)
(***************************************************************************)
LatestRequestSettled ==
    /\ lastRequestId > 0
    /\ \E c \in Slots :
          calls[c].pc = "settled" /\ calls[c].requestId = lastRequestId

C40_LoadingStep ==
    /\ \A c \in Slots :
          (/\ calls[c].pc \in {"returned", "raised"}
           /\ calls'[c].pc = "settled"
           /\ calls[c].requestId # lastRequestId)
              => loading' = loading
    /\ (~loading /\ loading') => lastRequestId' = lastRequestId + 1

C40_LoadingFlag ==
    /\ [](LatestRequestSettled => ~loading)
    /\ [][C40_LoadingStep]_vars
    /\ (loading ~> ~loading)

\* The request issued last has raised and settled after an earlier one that
\* was outdated when it settled, and loading is off.
C40_Witness ==
    /\ ~loading
    /\ \E c, d \in Slots :
          /\ calls[c].pc = "settled" /\ calls[c].stale
          /\ calls[d].pc = "settled" /\ calls[d].requestId = lastRequestId
          /\ calls[d].outcome = "raised"
====
